---- MODULE Spec2Model ----
(***************************************************************************)
(* A model of django-salesforce: the REST call with its one                *)
(* re-authentication retry (salesforce/dbapi/driver.py), the shared token  *)
(* cache (salesforce/auth.py), the pagination loops                        *)
(* (salesforce/backend/subselect.py, salesforce/backend/utils.py) and the  *)
(* DB API cursor (salesforce/dbapi/driver.py).                             *)
(*                                                                         *)
(* Conventions.  A token is a natural number: 0 is the token given to      *)
(* dynamic_start(), n >= 1 is the result of the n-th successful            *)
(* authenticate().  A response is a record [status, code]: status 0 is a   *)
(* transport timeout (requests.exceptions.Timeout), code "ok" is the body  *)
(* of a successful response, code "nojson" a body that is no JSON error    *)
(* list, any other code the errorCode of the first element of the JSON     *)
(* error list.  Python's None for rowcount is the empty sequence, a value  *)
(* n is <<n>>.  settings_dict['USER'] is a static user.                    *)
(***************************************************************************)
EXTENDS Integers, Sequences, FiniteSets, TLC

\* ------------------------------------------------------------------ bounds
NThreads == 2
MaxCalls == 1
MaxPks == 2
MaxChunks == 2
MaxRows == 2
MaxOps == 3
MaxFetch == 2
MaxSub == 3
MaxTerms == 2
MaxLogins == 3
MaxLen == 5
MaxParen == 5
MaxDepth == 2
MaxNest == 2
MaxFields == 3
MaxRecs == 2
MaxExec == 3
MaxTime == 2

\* --------------------------------------------------------------- alphabets
Threads == 1..NThreads
Alias == "salesforce"
OtherAlias == "other"

Methods == {"HEAD", "GET", "POST", "PATCH", "DELETE"}
OkStatuses == {200, 204}
ErrStatuses == {400, 401, 404}
ErrorCodes == {"INVALID_SESSION_ID", "ENTITY_IS_DELETED", "INVALID_CROSS_REFERENCE_KEY",
               "NOT_FOUND", "MALFORMED_QUERY"}
Timeout == [status |-> 0, code |-> "timeout"]
OkResponses == [status : OkStatuses, code : {"ok"}]
ErrResponses == [status : ErrStatuses, code : ErrorCodes \cup {"nojson"}]
AllResponses == OkResponses \cup ErrResponses \cup {Timeout}
\* the responses that decide the control flow, for the runs with several threads
FewResponses == {[status |-> 200, code |-> "ok"],
                 [status |-> 401, code |-> "INVALID_SESSION_ID"],
                 [status |-> 400, code |-> "MALFORMED_QUERY"],
                 Timeout}

VARIABLES
    oauth_data,   \* auth.oauth_data: alias -> token, a partial function
    oauth_lock,   \* auth.oauth_lock: the set of threads inside "with oauth_lock"
    authCount,    \* successful authenticate() calls so far
    everDeleted,  \* history: some del_token() removed an entry
    everFailed,   \* history: some authenticate() raised
    dynamic,      \* SalesforceAuth.dynamic is set, per thread's auth object
    pc,           \* position of each thread
    retaddr,      \* where the running get_auth() returns to
    tok,          \* <<token>> last returned by get_auth() to the thread, or <<>>
    op,           \* the statement: "call" (a bare API call) or "delete"
    npk,          \* "delete": number of ids found by get_pks_from_query
    method,       \* HTTP method of the running call
    eh,           \* an errorhandler is installed
    sent,         \* tokens attached to the requests sent by the running call
    resps,        \* responses received by the running call
    reauth,       \* reauthenticate() invocations of the running call
    delTok,       \* <<token>> removed by the call's del_token(), or <<>>
    outcome,      \* result of the call: [kind, status, code]
    handled,      \* errorhandler invocations of the running call
    rowcount,     \* CursorWrapper.rowcount
    calls         \* statements finished by the thread

apiVars == <<oauth_data, oauth_lock, authCount, everDeleted, everFailed, dynamic, pc,
             retaddr, tok, op, npk, method, eh, sent, resps, reauth, delTok, outcome,
             handled, rowcount, calls>>

VARIABLES
    chunks,       \* the responses the server gives to a SELECT and to its continuations
    pgKind,       \* "parse": QQuery.parse_rest_response, "results": query_results
    pgCursor,     \* parse_rest_response got a cursor
    pgPc,         \* the generator: "run", "ended" (StopIteration) or "failed"
    pgChunk,      \* index of the chunk in resp / results
    pgPos,        \* records of that chunk already yielded
    pgOut,        \* rows yielded so far
    pgMore,       \* arguments of the query_more calls so far
    pgErr         \* exception that ended the generator

pageVars == <<pgKind, pgCursor, pgPc, pgChunk, pgPos, pgOut, pgMore, pgErr>>

VARIABLES
    cResults,     \* Cursor._results: [kind, chunk]; kind "fresh" is the generator
                  \* not_executed_yet(), "spent" that generator after it raised,
                  \* "list" the records of the chunk
    cNextUrl,     \* Cursor._next_records_url: <<>> for None, <<j>> the locator of chunk j
    cDescription, \* Cursor.description: "None" or "()"
    cRowcount,    \* Cursor.rowcount
    cRownumber,   \* Cursor.rownumber: <<>> for None
    cCall,        \* the fetch call that is running: "", "fetchmany", "fetchall", "iter"
    cWant,        \* fetchmany: rows islice still takes
    cAcc,         \* rows collected by the running call
    gPos,         \* position of the running generator in its list
    cErr,         \* exception raised by the last operation, "" for none
    cLast,        \* the last operation that ended
    cRet,         \* rows the last fetch call returned
    cDelivered,   \* history: rows handed to the caller since the last execute()
    cFetches,     \* history: fetch calls ended since the last execute()
    cReqs,        \* history: continuation requests since the last execute() or close()
    cExecGood,    \* history: the last execute() was a SELECT with parameters that
                  \* the server answered with the first chunk
    cOps,         \* operations started so far
    cMessages,    \* Cursor.messages: the error classes the errorhandler has appended
    cHandler,     \* Cursor.errorhandler is standard_errorhandler (else None)
    cEverOk,      \* history: an execute() has succeeded since __init__ or the last close()
    cDirty        \* history: the last execute() found values that an earlier statement
                  \* had left in the attributes

cursorVars == <<cResults, cNextUrl, cDescription, cRowcount, cRownumber, cCall, cWant,
                cAcc, gPos, cErr, cLast, cRet, cDelivered, cFetches, cReqs, cExecGood,
                cOps, cMessages, cHandler, cEverOk, cDirty>>

VARIABLES
    bKind,        \* the batch: "composite" (composite_request), "collection"
                  \* (collection_request) or "insert" (CursorWrapper.execute of an
                  \* InsertQuery with several records)
    bReq,         \* the methods of the subrequests, in request order
    bResp,        \* the entries of the response: [status, code, ref], ref the referenceId
    bOuter,       \* the response to the POST that carries the batch
    bPc,          \* "start", "got", "fake", "done"
    bBad,         \* composite_request: bad_i + 1, 0 when there is none
    bOut,         \* how the call ended
    bLastrowid    \* CursorWrapper.lastrowid: <<>> for None, else <<the list>>

batchVars == <<bKind, bReq, bResp, bOuter, bPc, bBad, bOut, bLastrowid>>

VARIABLES
    connect_lock, \* driver.connect_lock: the set of threads that hold it
    sf_session,   \* RawConnection._sf_session: <<>> for None, else <<the session>>
    sessCount,    \* requests.Session objects constructed so far; the n-th is n
    sPc,          \* where each thread is in sf_session / make_session
    sLocal,       \* make_session: the local sf_session of the thread
    sGot,         \* the value the property sf_session returned to the thread
    sUsed,        \* the sessions through which the cursors of the thread have sent
    sCalls        \* requests of the thread so far

sessVars == <<connect_lock, sf_session, sessCount, sPc, sLocal, sGot, sUsed, sCalls>>

VARIABLES
    pkWhere,  \* query.where as get_pks_from_query reads it
    pkBuild,  \* the build: DJANGO_111_PLUS, and whether assert statements are compiled
    pkPc,     \* where get_pks_from_query is
    pkSql,    \* its local sql: "" for None
    pkOut,    \* what it returned or raised
    pkReqs    \* queries sent to the server on its behalf

pksVars == <<pkWhere, pkBuild, pkPc, pkSql, pkOut, pkReqs>>

VARIABLES
    lgPassword, \* settings_dict['PASSWORD'] of the auth object
    lgNow,      \* the clock
    lgSent,     \* login requests posted to /services/oauth2/token so far
    lgFailed,   \* <<>> or the password and the time of the last failed authenticate()
    lgOut,      \* what the last authenticate() returned or raised
    lgCalls     \* calls of authenticate() so far

loginVars == <<lgPassword, lgNow, lgSent, lgFailed, lgOut, lgCalls>>

VARIABLES
    sqlText,  \* the text given to a function of subselect.py: a sequence of symbols,
              \* each a punctuation or whitespace character or a whole word
    sqlStart, \* the argument startpos of find_closing_parenthesis
    sqlPc,    \* which call is next
    sqlOut,   \* what the function returned or raised
    sqlBack   \* what subst_quoted_strings made of the marked text and the params

sqlVars == <<sqlText, sqlStart, sqlPc, sqlOut, sqlBack>>

VARIABLES
    flResp,   \* response.json() given to parse_rest_response: [records, totalSize, done]
    flPc,     \* the generator of parse_rest_response: "idle", "ended" or "raised"
    flOut,    \* what it has yielded
    flErr     \* the exception that ended it, "" for none

flatVars == <<flResp, flPc, flOut, flErr>>

VARIABLES
    svCalls,  \* the execute calls so far: [via, sqltype, queryall, service], service
              \* the one the request went to, "" when none was sent
    svErr     \* the exception the last call raised, "" for none

svcVars == <<svCalls, svErr>>

vars == <<apiVars, chunks, pageVars, cursorVars, batchVars, sessVars, pksVars, loginVars, sqlVars, flatVars, svcVars>>
notSvc == <<apiVars, chunks, pageVars, cursorVars, batchVars, sessVars, pksVars, loginVars, sqlVars, flatVars>>
notFlat == <<apiVars, chunks, pageVars, cursorVars, batchVars, sessVars, pksVars, loginVars, sqlVars, svcVars>>
notSql == <<apiVars, chunks, pageVars, cursorVars, batchVars, sessVars, pksVars, loginVars, flatVars, svcVars>>
notLogin == <<apiVars, chunks, pageVars, cursorVars, batchVars, sessVars, pksVars, sqlVars, flatVars, svcVars>>

\* what the actions of one part leave alone
notApi == <<chunks, pageVars, cursorVars, batchVars, sessVars, pksVars, loginVars, sqlVars, flatVars, svcVars>>
notPage == <<apiVars, chunks, cursorVars, batchVars, sessVars, pksVars, loginVars, sqlVars, flatVars, svcVars>>
notCursor == <<apiVars, chunks, pageVars, batchVars, sessVars, pksVars, loginVars, sqlVars, flatVars, svcVars>>
notBatch == <<apiVars, chunks, pageVars, cursorVars, sessVars, pksVars, loginVars, sqlVars, flatVars, svcVars>>
notPks == <<apiVars, chunks, pageVars, cursorVars, batchVars, sessVars, loginVars, sqlVars, flatVars, svcVars>>
\* make_session uses the token cache of auth.py and nothing else of a statement
notSess == <<chunks, pageVars, cursorVars, batchVars, pksVars, everDeleted, dynamic, pc, retaddr,
             tok, op, npk, method, eh, sent, resps, reauth, delTok, outcome, handled,
             rowcount, calls, loginVars, sqlVars, flatVars, svcVars>>

NoOutcome == [kind |-> "none", status |-> 0, code |-> ""]
Returned(r) == [kind |-> "response", status |-> r.status, code |-> r.code]
ReturnedNone(r) == [kind |-> "None", status |-> r.status, code |-> r.code]
Raised(k, r) == [kind |-> k, status |-> r.status, code |-> r.code]
IsError(o) == o.kind \notin {"none", "response", "None"}

\* no statement has run; the token cache is set apart
ApiStart ==
    /\ oauth_lock = {}
    /\ authCount = 0
    /\ everDeleted = FALSE
    /\ everFailed = FALSE
    /\ dynamic = [t \in Threads |-> FALSE]
    /\ pc = [t \in Threads |-> "idle"]
    /\ retaddr = [t \in Threads |-> "idle"]
    /\ tok = [t \in Threads |-> <<>>]
    /\ op = [t \in Threads |-> "call"]
    /\ npk = [t \in Threads |-> 0]
    /\ method = [t \in Threads |-> "GET"]
    /\ eh = [t \in Threads |-> FALSE]
    /\ sent = [t \in Threads |-> <<>>]
    /\ resps = [t \in Threads |-> <<>>]
    /\ reauth = [t \in Threads |-> 0]
    /\ delTok = [t \in Threads |-> <<>>]
    /\ outcome = [t \in Threads |-> NoOutcome]
    /\ handled = [t \in Threads |-> 0]
    /\ rowcount = [t \in Threads |-> <<>>]
    /\ calls = [t \in Threads |-> 0]

\* auth.py line 33: oauth_data = {}
ApiInit == oauth_data = [a \in {} |-> 0] /\ ApiStart

\* ---------------------------------------------------- driver.py, pure parts

\* a retry that is retried again: the bug of a loop "while status == 401"
AfterResponse_Loop(attempt, r) ==
    IF r = Timeout THEN "timeout"
    ELSE IF r.status = 401
         THEN IF r.code = "nojson" THEN "badjson"
              ELSE IF r.code = "INVALID_SESSION_ID" THEN "reauth"
              ELSE "finish"
         ELSE "finish"

\* a timeout of the first request answered by a new login and a retry
AfterResponse_RetryTimeout(attempt, r) ==
    IF r = Timeout THEN IF attempt = 1 THEN "reauth" ELSE "timeout"
    ELSE IF attempt = 1 /\ r.status = 401
         THEN IF r.code = "nojson" THEN "badjson"
              ELSE IF r.code = "INVALID_SESSION_ID" THEN "reauth"
              ELSE "finish"
         ELSE "finish"

\* handle_api_exceptions_inter, lines 257-271: what follows the attempt-th response
AfterResponse(attempt, r) ==
    IF r = Timeout THEN "timeout"
    ELSE IF attempt = 1 /\ r.status = 401
         THEN IF r.code = "nojson" THEN "badjson"
              ELSE IF r.code = "INVALID_SESSION_ID" THEN "reauth"
              ELSE "finish"
         ELSE "finish"

\* raise_errors, lines 310-312: the errorCodes reported with the method and the URL
UrlCodes == {"NOT_FOUND", "METHOD_NOT_ALLOWED"}

\* The exception object that raise_errors, lines 295-315, makes for the response r:
\* its class and what it carries (the message of the first error, its errorCode,
\* the HTTP status). OperationalError gets the text "HTTP error code <status>:
\* <body>". SalesforceError.__init__, exceptions.py lines 70-126, is called as
\* SalesforceError([err_msg], response) or SalesforceError([err_msg], response,
\* ['method+url']): its parameters are (message, data, response), so the message is
\* the list [err_msg], data is the response object, which is false for a response
\* that is not ok, and no errorCode is taken from it; with the third argument
\* "if response: ... response.status_code" (lines 118-119) is evaluated on the
\* list ['method+url'] and raises AttributeError.
ErrorObject(r) ==
    IF r.code = "nojson"
    THEN [kind |-> "OperationalError", message |-> FALSE, errorCode |-> FALSE, status |-> TRUE]
    ELSE IF r.code \in UrlCodes
    THEN [kind |-> "AttributeError", message |-> FALSE, errorCode |-> FALSE, status |-> FALSE]
    ELSE [kind |-> "SalesforceError", message |-> TRUE, errorCode |-> FALSE, status |-> FALSE]

\* the deleted-record codes accepted whatever the status
RaiseErrors_AnyStatus(m, r) ==
    IF r.code # "nojson" /\ m = "DELETE"
       /\ r.code \in {"ENTITY_IS_DELETED", "INVALID_CROSS_REFERENCE_KEY"}
    THEN ReturnedNone(r)
    ELSE Raised(ErrorObject(r).kind, r)

\* raise_errors, lines 284-315: the exception raised for a response that is not ok,
\* or None for the accepted delete of a deleted record
RaiseErrors(m, r) ==
    IF r.code # "nojson" /\ r.status = 404 /\ m = "DELETE"
       /\ r.code \in {"ENTITY_IS_DELETED", "INVALID_CROSS_REFERENCE_KEY"}
    THEN ReturnedNone(r)
    ELSE Raised(ErrorObject(r).kind, r)

\* handle_api_exceptions_inter, lines 273-282
Finish(m, r) == IF r.status < 400 THEN Returned(r) ELSE RaiseErrors(m, r)

\* handle_api_exceptions, lines 233-242: the errorhandler sees SalesforceError only
HandlerCalls(e, o) == IF e /\ o.kind = "SalesforceError" THEN 1 ELSE 0

\* ------------------------------------------------------ utils.py, pure part

CompResponses(n) == [1..n -> {204, 400}]

\* execute_delete, lines 424-449: rowcount after the request returned ret
RowcountAfterDelete(n, o, cr) ==
    IF n = 1
    THEN IF o.kind = "response" /\ o.status = 204 THEN <<1>> ELSE <<0>>
    ELSE <<Cardinality({i \in 1..n : cr[i] = 204})>>

\* execute_update, lines 392-417: rowcount after the request returned ret; without
\* ids the method returns before it assigns rowcount, which execute, line 234, has
\* set to None
RowcountAfterUpdate(n, o) == IF n = 0 THEN <<>> ELSE <<1>>

\* ------------------------------------------------------------ auth.py

\* get_auth and del_token without mutual exclusion
LockFree_Always == TRUE

\* "with oauth_lock": the lock can be taken
LockFree == oauth_lock = {}

\* a call of get_auth() that returns to ret, lines 99-104
GetAuthEntry(t, ret) ==
    IF dynamic[t]
    THEN /\ tok' = [tok EXCEPT ![t] = <<0>>]
         /\ pc' = [pc EXCEPT ![t] = ret]
         /\ UNCHANGED retaddr
    ELSE /\ pc' = [pc EXCEPT ![t] = "ga_acq"]
         /\ retaddr' = [retaddr EXCEPT ![t] = ret]
         /\ UNCHANGED tok

\* the statement ends with outcome o (cr: the compositeResponse of a bulk delete)
Complete(t, o, cr) ==
    /\ outcome' = [outcome EXCEPT ![t] = o]
    /\ handled' = [handled EXCEPT ![t] = @ + HandlerCalls(eh[t], o)]
    /\ rowcount' = [rowcount EXCEPT ![t] =
                      IF op[t] = "delete" /\ ~IsError(o)
                      THEN RowcountAfterDelete(npk[t], o, cr)
                      ELSE IF op[t] = "update" /\ ~IsError(o)
                      THEN RowcountAfterUpdate(npk[t], o) ELSE @]
    /\ pc' = [pc EXCEPT ![t] = "done"]

NoResponse == [status |-> 0, code |-> ""]
NoComp == <<>>

shared == <<oauth_data, oauth_lock, authCount, everDeleted, everFailed>>
stmt == <<op, npk, method, eh, calls>>
progress == <<sent, resps, reauth, delTok>>
result == <<outcome, handled, rowcount>>

\* a "with" block that keeps its lock when an exception leaves it
LeaveOnRaise_Held(lock, t) == lock

\* "with oauth_lock", auth.py line 105, and "with connect_lock", driver.py line 159:
\* an exception that leaves the block releases the lock of the thread
LeaveOnRaise(lock, t) == lock \ {t}

\* get_auth, line 105: enter "with oauth_lock"
GetAuthAcquire(t) ==
    /\ pc[t] = "ga_acq"
    /\ LockFree
    /\ oauth_lock' = oauth_lock \cup {t}
    /\ pc' = [pc EXCEPT ![t] = "ga_chk"]
    /\ UNCHANGED <<oauth_data, authCount, everDeleted, everFailed, dynamic, retaddr, tok,
                   stmt, progress, result>>
    /\ UNCHANGED notApi

\* get_auth, line 106: "if not db_alias in oauth_data"
GetAuthCheck(t) ==
    /\ pc[t] = "ga_chk"
    /\ pc' = [pc EXCEPT ![t] = IF Alias \in DOMAIN oauth_data THEN "ga_ret" ELSE "ga_auth"]
    /\ UNCHANGED <<shared, dynamic, retaddr, tok, stmt, progress, result>>
    /\ UNCHANGED notApi

\* get_auth, line 107, and SalesforcePasswordAuth.authenticate: the login succeeds and
\* a new token is stored, or it raises (LookupError, RuntimeError) and the lock is left
Authenticate(t, ok) ==
    /\ pc[t] = "ga_auth"
    /\ IF ok
       THEN /\ authCount' = authCount + 1
            /\ oauth_data' = [a \in DOMAIN oauth_data \cup {Alias} |->
                                IF a = Alias THEN authCount + 1 ELSE oauth_data[a]]
            /\ pc' = [pc EXCEPT ![t] = "ga_ret"]
            /\ UNCHANGED <<oauth_lock, everFailed, result>>
       ELSE /\ oauth_lock' = LeaveOnRaise(oauth_lock, t)
            /\ everFailed' = TRUE
            /\ Complete(t, Raised("LookupError", NoResponse), NoComp)
            /\ UNCHANGED <<oauth_data, authCount>>
    /\ UNCHANGED <<everDeleted, dynamic, retaddr, tok, stmt, progress>>
    /\ UNCHANGED notApi

\* get_auth, line 108: return the cached value and leave the lock
GetAuthReturn(t) ==
    /\ pc[t] = "ga_ret"
    /\ IF Alias \in DOMAIN oauth_data
       THEN /\ tok' = [tok EXCEPT ![t] = <<oauth_data[Alias]>>]
            /\ pc' = [pc EXCEPT ![t] = retaddr[t]]
            /\ UNCHANGED result
       ELSE /\ Complete(t, Raised("KeyError", NoResponse), NoComp)
            /\ UNCHANGED tok
    /\ oauth_lock' = oauth_lock \ {t}
    /\ UNCHANGED <<oauth_data, authCount, everDeleted, everFailed, dynamic, retaddr,
                   stmt, progress>>
    /\ UNCHANGED notApi

\* reauthenticate, lines 121-129
Reauthenticate(t) ==
    /\ pc[t] = "reauth"
    /\ reauth' = [reauth EXCEPT ![t] = @ + 1]
    /\ IF dynamic[t]
       THEN /\ Complete(t, Raised("DatabaseError", NoResponse), NoComp)
       ELSE /\ pc' = [pc EXCEPT ![t] = "dt_acq"]
            /\ UNCHANGED result
    /\ UNCHANGED <<shared, dynamic, retaddr, tok, stmt, sent, resps, delTok>>
    /\ UNCHANGED notApi

\* del_token, line 111: enter "with oauth_lock"
DelTokenAcquire(t) ==
    /\ pc[t] = "dt_acq"
    /\ LockFree
    /\ oauth_lock' = oauth_lock \cup {t}
    /\ pc' = [pc EXCEPT ![t] = "dt_del"]
    /\ UNCHANGED <<oauth_data, authCount, everDeleted, everFailed, dynamic, retaddr, tok,
                   stmt, progress, result>>
    /\ UNCHANGED notApi

\* reauthenticate that keeps the cache entry: get_auth() then returns it again
DelToken_Keep(t) ==
    /\ pc[t] = "dt_del"
    /\ oauth_lock' = oauth_lock \ {t}
    /\ Alias \in DOMAIN oauth_data
    /\ delTok' = [delTok EXCEPT ![t] = <<oauth_data[Alias]>>]
    /\ dynamic' = [dynamic EXCEPT ![t] = FALSE]
    /\ pc' = [pc EXCEPT ![t] = "ga_acq"]
    /\ retaddr' = [retaddr EXCEPT ![t] = "auth"]
    /\ UNCHANGED <<oauth_data, everDeleted, result, authCount, everFailed, tok, stmt,
                   sent, resps, reauth>>
    /\ UNCHANGED notApi

\* del_token that empties the whole cache
DelToken_Clear(t) ==
    /\ pc[t] = "dt_del"
    /\ oauth_lock' = oauth_lock \ {t}
    /\ IF Alias \in DOMAIN oauth_data
       THEN /\ delTok' = [delTok EXCEPT ![t] = <<oauth_data[Alias]>>]
            /\ oauth_data' = [a \in {} |-> 0]
            /\ everDeleted' = TRUE
            /\ dynamic' = [dynamic EXCEPT ![t] = FALSE]
            /\ pc' = [pc EXCEPT ![t] = "ga_acq"]
            /\ retaddr' = [retaddr EXCEPT ![t] = "auth"]
            /\ UNCHANGED result
       ELSE /\ Complete(t, Raised("KeyError", NoResponse), NoComp)
            /\ UNCHANGED <<delTok, oauth_data, everDeleted, dynamic, retaddr>>
    /\ UNCHANGED <<authCount, everFailed, tok, stmt, sent, resps, reauth>>
    /\ UNCHANGED notApi

\* del_token, lines 112-113, then get_auth() of reauthenticate, line 124.
\* "del oauth_data[alias]" raises KeyError when the alias has no entry.
DelToken(t) ==
    /\ pc[t] = "dt_del"
    /\ oauth_lock' = oauth_lock \ {t}
    /\ IF Alias \in DOMAIN oauth_data
       THEN /\ delTok' = [delTok EXCEPT ![t] = <<oauth_data[Alias]>>]
            /\ oauth_data' = [a \in DOMAIN oauth_data \ {Alias} |-> oauth_data[a]]
            /\ everDeleted' = TRUE
            /\ dynamic' = [dynamic EXCEPT ![t] = FALSE]
            /\ pc' = [pc EXCEPT ![t] = "ga_acq"]
            /\ retaddr' = [retaddr EXCEPT ![t] = "auth"]
            /\ UNCHANGED result
       ELSE /\ Complete(t, Raised("KeyError", NoResponse), NoComp)
            /\ UNCHANGED <<delTok, oauth_data, everDeleted, dynamic, retaddr>>
    /\ UNCHANGED <<authCount, everFailed, tok, stmt, sent, resps, reauth>>
    /\ UNCHANGED notApi

\* dynamic_start, line 139, and dynamic_end, line 145, between two statements
DynamicStart(t) ==
    /\ pc[t] = "idle"
    /\ ~dynamic[t]
    /\ dynamic' = [dynamic EXCEPT ![t] = TRUE]
    /\ UNCHANGED <<shared, pc, retaddr, tok, stmt, progress, result>>
    /\ UNCHANGED notApi

DynamicEnd(t) ==
    /\ pc[t] = "idle"
    /\ dynamic[t]
    /\ dynamic' = [dynamic EXCEPT ![t] = FALSE]
    /\ UNCHANGED <<shared, pc, retaddr, tok, stmt, progress, result>>
    /\ UNCHANGED notApi

\* -------------------------------------------------- driver.py and utils.py

\* handle_api_exceptions(method, ...): a new call starts with rest_api_url, line 248,
\* which reads sf_session.auth.instance_url, that is get_auth()
StartCall(t, M, E) ==
    /\ pc[t] = "idle"
    /\ calls[t] < MaxCalls
    /\ \E m \in M, e \in E :
         /\ method' = [method EXCEPT ![t] = m]
         /\ eh' = [eh EXCEPT ![t] = e]
    /\ op' = [op EXCEPT ![t] = "call"]
    /\ npk' = [npk EXCEPT ![t] = 0]
    /\ sent' = [sent EXCEPT ![t] = <<>>]
    /\ resps' = [resps EXCEPT ![t] = <<>>]
    /\ reauth' = [reauth EXCEPT ![t] = 0]
    /\ delTok' = [delTok EXCEPT ![t] = <<>>]
    /\ outcome' = [outcome EXCEPT ![t] = NoOutcome]
    /\ handled' = [handled EXCEPT ![t] = 0]
    /\ GetAuthEntry(t, "auth")
    /\ UNCHANGED <<shared, dynamic, rowcount, calls>>
    /\ UNCHANGED notApi

\* CursorWrapper.execute of a DeleteQuery whose filter gives n ids: execute, line 234,
\* and execute_delete, lines 419-448
StartDelete(t, E) ==
    /\ pc[t] = "idle"
    /\ calls[t] < MaxCalls
    /\ \E n \in 0..MaxPks, e \in E :
         /\ npk' = [npk EXCEPT ![t] = n]
         /\ eh' = [eh EXCEPT ![t] = e]
         /\ method' = [method EXCEPT ![t] = IF n = 1 THEN "DELETE" ELSE "POST"]
         /\ rowcount' = [rowcount EXCEPT ![t] = IF n = 0 THEN <<0>> ELSE <<>>]
         /\ outcome' = [outcome EXCEPT ![t] =
                          IF n = 0 THEN ReturnedNone(NoResponse) ELSE NoOutcome]
         /\ IF n = 0
            THEN /\ pc' = [pc EXCEPT ![t] = "done"]
                 /\ UNCHANGED <<retaddr, tok>>
            ELSE GetAuthEntry(t, "auth")
    /\ op' = [op EXCEPT ![t] = "delete"]
    /\ sent' = [sent EXCEPT ![t] = <<>>]
    /\ resps' = [resps EXCEPT ![t] = <<>>]
    /\ reauth' = [reauth EXCEPT ![t] = 0]
    /\ delTok' = [delTok EXCEPT ![t] = <<>>]
    /\ handled' = [handled EXCEPT ![t] = 0]
    /\ UNCHANGED <<shared, dynamic, calls>>
    /\ UNCHANGED notApi

\* CursorWrapper.execute of an UpdateQuery whose filter gives n ids: execute, line
\* 234, and execute_update, lines 386-415
StartUpdate(t, E) ==
    /\ pc[t] = "idle"
    /\ calls[t] < MaxCalls
    /\ \E n \in 0..MaxPks, e \in E :
         /\ npk' = [npk EXCEPT ![t] = n]
         /\ eh' = [eh EXCEPT ![t] = e]
         /\ method' = [method EXCEPT ![t] = IF n = 1 THEN "PATCH" ELSE "POST"]
         /\ rowcount' = [rowcount EXCEPT ![t] = <<>>]
         /\ outcome' = [outcome EXCEPT ![t] =
                          IF n = 0 THEN ReturnedNone(NoResponse) ELSE NoOutcome]
         /\ IF n = 0
            THEN /\ pc' = [pc EXCEPT ![t] = "done"]
                 /\ UNCHANGED <<retaddr, tok>>
            ELSE GetAuthEntry(t, "auth")
    /\ op' = [op EXCEPT ![t] = "update"]
    /\ sent' = [sent EXCEPT ![t] = <<>>]
    /\ resps' = [resps EXCEPT ![t] = <<>>]
    /\ reauth' = [reauth EXCEPT ![t] = 0]
    /\ delTok' = [delTok EXCEPT ![t] = <<>>]
    /\ handled' = [handled EXCEPT ![t] = 0]
    /\ UNCHANGED <<shared, dynamic, calls>>
    /\ UNCHANGED notApi

\* session.request, lines 258 and 269: the auth hook SalesforceAuth.__call__,
\* auth.py lines 115-119, asks get_auth() for the token of the request
BeginRequest(t) ==
    /\ pc[t] = "auth"
    /\ GetAuthEntry(t, "send")
    /\ UNCHANGED <<shared, dynamic, stmt, progress, result>>
    /\ UNCHANGED notApi

\* the compositeResponse read by execute_delete, line 449
CompFor(t, r) ==
    IF op[t] = "delete" /\ npk[t] >= 2 /\ r.status \in OkStatuses
    THEN CompResponses(npk[t]) ELSE {NoComp}

\* the request goes out with the token and the server answers r (or the transport
\* times out); handle_api_exceptions_inter, lines 257-282
SendResp(t, r, cr) ==
    /\ pc[t] = "send"
    /\ sent' = [sent EXCEPT ![t] = Append(@, tok[t][1])]
    /\ resps' = [resps EXCEPT ![t] = Append(@, r)]
    /\ LET next == AfterResponse(Len(sent[t]) + 1, r) IN
         IF next = "reauth"
         THEN /\ pc' = [pc EXCEPT ![t] = "reauth"]
              /\ UNCHANGED result
         ELSE Complete(t, IF next = "timeout" THEN Raised("SalesforceError", Timeout)
                          ELSE IF next = "badjson" THEN Raised("ValueError", r)
                          ELSE Finish(method[t], r), cr)
    /\ UNCHANGED <<shared, dynamic, retaddr, tok, stmt, reauth, delTok>>
    /\ UNCHANGED notApi

Send(t, R) == \E r \in R : \E cr \in CompFor(t, r) : SendResp(t, r, cr)

\* the statement is over; the caller has its result or its exception
Return(t) ==
    /\ pc[t] = "done"
    /\ pc' = [pc EXCEPT ![t] = "idle"]
    /\ calls' = [calls EXCEPT ![t] = @ + 1]
    /\ UNCHANGED <<shared, dynamic, retaddr, tok, op, npk, method, eh, progress, result>>
    /\ UNCHANGED notApi

\* ------------------------------------------------------------- pagination
\* A chunk is [n, done, next]: n records, the "done" flag and the key nextRecordsUrl,
\* which is "absent", "null" or "url" (a locator of the chunk that follows).
\* The j-th record of the i-th chunk is <<i, j>>.

NextKeys == {"absent", "null", "url"}
Chunks == [n : 0..MaxRows, done : BOOLEAN, next : NextKeys]
ChunkSeqs == UNION {[1..k -> Chunks] : k \in 1..MaxChunks}

RowsOf(cs, i) == [j \in 1..cs[i].n |-> <<i, j>>]

RECURSIVE RowsUpTo(_, _)
RowsUpTo(cs, k) == IF k = 0 THEN <<>> ELSE RowsUpTo(cs, k - 1) \o RowsOf(cs, k)

AllRows(cs) == RowsUpTo(cs, Len(cs))

IsPrefix(s, u) == Len(s) <= Len(u) /\ \A i \in 1..Len(s) : s[i] = u[i]

PageIdle ==
    /\ chunks = <<[n |-> 0, done |-> TRUE, next |-> "absent"]>>
    /\ pgKind = "parse"
    /\ pgCursor = FALSE
    /\ pgPc = "ended"
    /\ pgChunk = 1
    /\ pgPos = 0
    /\ pgOut = <<>>
    /\ pgMore = <<>>
    /\ pgErr = ""

\* parse_rest_response(response, cursor) and query_results(results) get the first
\* chunk as their argument
PageInit ==
    /\ chunks \in ChunkSeqs
    /\ pgKind \in {"parse", "results"}
    /\ pgCursor \in BOOLEAN
    /\ pgKind = "results" => pgCursor
    /\ pgPc = "run"
    /\ pgChunk = 1
    /\ pgPos = 0
    /\ pgOut = <<>>
    /\ pgMore = <<>>
    /\ pgErr = ""

\* a generator that stops after the first chunk
AfterChunk_Stop(kind, cursorGiven, c) == "end"

\* a generator that follows nextRecordsUrl whenever the key holds a locator
AfterChunk_FollowUrl(kind, cursorGiven, c) ==
    IF c.next = "url" THEN "more" ELSE "end"

\* subselect.py lines 156-161 and utils.py lines 493-498: what the generator does
\* when the records of chunk c are used up
AfterChunk(kind, cursorGiven, c) ==
    IF c.done THEN "end"
    ELSE IF kind = "parse" /\ ~cursorGiven THEN "ProgrammingError"
    ELSE IF c.next = "absent" THEN "KeyError"
    ELSE "more"

\* subselect.py lines 149-155 and utils.py lines 485-491: the next record is yielded
PageYield ==
    /\ pgPc = "run"
    /\ pgPos < chunks[pgChunk].n
    /\ pgOut' = Append(pgOut, <<pgChunk, pgPos + 1>>)
    /\ pgPos' = pgPos + 1
    /\ UNCHANGED <<pgKind, pgCursor, pgPc, pgChunk, pgMore, pgErr>>
    /\ UNCHANGED notPage

\* the chunk is used up: the generator ends, fails, or calls query_more with the
\* value of nextRecordsUrl (0 stands for null); the server answers a locator with
\* the chunk that follows and refuses any other URL
PageAdvance ==
    /\ pgPc = "run"
    /\ pgPos = chunks[pgChunk].n
    /\ LET c == chunks[pgChunk]
           what == AfterChunk(pgKind, pgCursor, c)
       IN  IF what = "end"
           THEN /\ pgPc' = "ended"
                /\ UNCHANGED <<pgChunk, pgPos, pgMore, pgErr>>
           ELSE IF what = "more"
           THEN /\ pgMore' = Append(pgMore, IF c.next = "url" THEN pgChunk ELSE 0)
                /\ IF c.next = "url" /\ pgChunk < Len(chunks)
                   THEN /\ pgChunk' = pgChunk + 1
                        /\ pgPos' = 0
                        /\ UNCHANGED <<pgPc, pgErr>>
                   ELSE /\ pgPc' = "failed"
                        /\ pgErr' = "SalesforceError"
                        /\ UNCHANGED <<pgChunk, pgPos>>
           ELSE /\ pgPc' = "failed"
                /\ pgErr' = what
                /\ UNCHANGED <<pgChunk, pgPos, pgMore>>
    /\ UNCHANGED <<pgKind, pgCursor, pgOut>>
    /\ UNCHANGED notPage

\* ------------------------------------------------- driver.py, class Cursor

TotalSize(cs) == Len(AllRows(cs))
Fresh == [kind |-> "fresh", chunk |-> 0]
Spent == [kind |-> "spent", chunk |-> 0]
List(i) == [kind |-> "list", chunk |-> i]

\* Cursor.__init__, lines 436-450
CursorNew ==
    /\ cResults = Fresh
    /\ cNextUrl = <<>>
    /\ cDescription = "None"
    /\ cRowcount = -1
    /\ cRownumber = <<>>
    /\ cCall = ""
    /\ cWant = 0
    /\ cAcc = <<>>
    /\ gPos = 0
    /\ cErr = ""
    /\ cLast = "init"
    /\ cRet = <<>>
    /\ cDelivered = <<>>
    /\ cFetches = 0
    /\ cReqs = 0
    /\ cExecGood = FALSE
    /\ cOps = 0
    /\ cMessages = <<>>
    /\ cEverOk = FALSE
    /\ cDirty = FALSE

\* Cursor.__init__, line 446: the errorhandler of the connection, if it has one
CursorInit ==
    /\ chunks \in ChunkSeqs
    /\ cHandler \in BOOLEAN
    /\ CursorNew

CanStart == cCall = "" /\ cOps < MaxOps

\* the value execute_select and __iter__ store for the key nextRecordsUrl of chunk j
UrlAfter(cs, j) == IF cs[j].next = "url" THEN <<j + 1>> ELSE <<>>

\* an execute() that keeps what the previous statement left
Cleaned_Nothing ==
    [description |-> cDescription, rowcount |-> cRowcount, rownumber |-> cRownumber,
     messages |-> cMessages, next |-> cNextUrl, results |-> cResults]

\* _clean, lines 529-537: the attributes after it
Cleaned ==
    [description |-> "None", rowcount |-> -1, rownumber |-> <<>>,
     messages |-> <<>>, next |-> <<>>, results |-> Fresh]

\* standard_errorhandler, lines 549-553, called by handle_api_exceptions, lines
\* 233-242, for a SalesforceError of a request of this cursor
Handled(msgs, err) ==
    IF cHandler /\ err = "SalesforceError" THEN Append(msgs, err) ELSE msgs

\* execute(operation, parameters, queryall), lines 462-469, with _clean, lines
\* 529-537, and execute_select, lines 513-522. sel: the statement is a SELECT;
\* params: parameters are given (the default None is not iterable, line 514);
\* srv: the server answers the query with the first chunk.
Execute(sel, params, srv) ==
    /\ CanStart
    /\ cOps' = cOps + 1
    /\ cLast' = "execute"
    /\ cRet' = <<>>
    /\ cDelivered' = <<>>
    /\ cFetches' = 0
    /\ cReqs' = 0
    /\ cExecGood' = (sel /\ params /\ srv)
    /\ IF ~sel \/ ~params \/ ~srv
       THEN /\ cErr' = (IF ~sel THEN "ProgrammingError"
                        ELSE IF ~params THEN "TypeError" ELSE "SalesforceError")
            /\ cDescription' = Cleaned.description
            /\ cRowcount' = Cleaned.rowcount
            /\ cRownumber' = Cleaned.rownumber
            /\ cNextUrl' = Cleaned.next
            /\ cResults' = Cleaned.results
            /\ cMessages' = Handled(Cleaned.messages, cErr')
       ELSE /\ cDescription' = "()"
            /\ cRowcount' = TotalSize(chunks)
            /\ cRownumber' = <<0>>
            /\ cMessages' = Cleaned.messages
            /\ IF chunks[1].next = "absent"
               THEN /\ cErr' = "KeyError"
                    /\ cNextUrl' = Cleaned.next
                    /\ cResults' = Cleaned.results
               ELSE /\ cErr' = ""
                    /\ cNextUrl' = UrlAfter(chunks, 1)
                    /\ cResults' = List(1)
    /\ cEverOk' = (cEverOk \/ cErr' = "")
    /\ cDirty' = (cRowcount # -1 \/ cRownumber # <<>> \/ cMessages # <<>> \/ cNextUrl # <<>>
                    \/ cResults.kind = "list")
    /\ UNCHANGED <<cCall, cWant, cAcc, gPos, cHandler>>
    /\ UNCHANGED notCursor

\* close(), lines 456-460
Close ==
    /\ CanStart
    /\ cOps' = cOps + 1
    /\ cLast' = "close"
    /\ cErr' = ""
    /\ cRet' = <<>>
    /\ cExecGood' = FALSE
    /\ cEverOk' = FALSE
    /\ cReqs' = 0
    /\ cDescription' = Cleaned.description
    /\ cRowcount' = Cleaned.rowcount
    /\ cRownumber' = Cleaned.rownumber
    /\ cNextUrl' = Cleaned.next
    /\ cResults' = Cleaned.results
    /\ cMessages' = Cleaned.messages
    /\ UNCHANGED <<cCall, cWant, cAcc, gPos, cDelivered, cFetches, cHandler, cDirty>>
    /\ UNCHANGED notCursor

\* fetchone(), lines 489-491: next(self, None) on an object without __next__
FetchOne ==
    /\ CanStart
    /\ cOps' = cOps + 1
    /\ cLast' = "fetchone"
    /\ cErr' = "TypeError"
    /\ cRet' = <<>>
    /\ cFetches' = cFetches + 1
    /\ UNCHANGED <<cResults, cNextUrl, cDescription, cRowcount, cRownumber, cCall, cWant,
                   cAcc, gPos, cDelivered, cReqs, cExecGood, cMessages, cHandler, cEverOk, cDirty>>
    /\ UNCHANGED notCursor

\* fetchmany(size), lines 493-497, fetchall(), lines 499-501, and "for row in
\* cursor": each makes a new generator of __iter__, whose "for row in
\* self._results" iterates the list from its start; islice(self, 0) never runs it
Fetch(kind, size) ==
    /\ CanStart
    /\ cOps' = cOps + 1
    /\ cAcc' = <<>>
    /\ gPos' = 0
    /\ cWant' = size
    /\ IF kind = "fetchmany" /\ size = 0
       THEN /\ cLast' = kind
            /\ cErr' = ""
            /\ cRet' = <<>>
            /\ cFetches' = cFetches + 1
            /\ UNCHANGED cCall
       ELSE /\ cCall' = kind
            /\ UNCHANGED <<cLast, cErr, cRet, cFetches>>
    /\ UNCHANGED <<cResults, cNextUrl, cDescription, cRowcount, cRownumber, cDelivered,
                   cReqs, cExecGood, cMessages, cHandler, cEverOk, cDirty>>
    /\ UNCHANGED notCursor

\* the running call ends: it raises err, or returns the rows it has collected;
\* the rows of an iteration have reached the caller one by one in either case
EndCall(err, rows) ==
    /\ cCall' = ""
    /\ cLast' = cCall
    /\ cErr' = err
    /\ cRet' = (IF err = "" THEN rows ELSE <<>>)
    /\ cDelivered' = cDelivered \o (IF err = "" \/ cCall = "iter" THEN rows ELSE <<>>)
    /\ cFetches' = cFetches + 1

\* __iter__, lines 479-481: the generator yields the next row of its list; islice
\* stops after its last row and a loop may break, and then line 481 is not run.
\* stop: the caller of an iteration breaks after this row.
CurYield(stop) ==
    /\ cCall # ""
    /\ cResults.kind = "list"
    /\ LET i == cResults.chunk
           at == gPos
           row == <<i, at + 1>>
           last == \/ cCall = "fetchmany" /\ cWant = 1
                   \/ cCall = "iter" /\ stop
       IN  /\ at < chunks[i].n
           /\ gPos' = at + 1
           /\ cAcc' = Append(cAcc, row)
           /\ cWant' = (IF cCall = "fetchmany" THEN cWant - 1 ELSE cWant)
           /\ IF last
              THEN /\ EndCall("", Append(cAcc, row))
                   /\ UNCHANGED cRownumber
              ELSE /\ cRownumber' = <<cRownumber[1] + 1>>
                   /\ UNCHANGED <<cCall, cLast, cErr, cRet, cFetches, cDelivered>>
    /\ UNCHANGED <<cResults, cNextUrl, cDescription, cRowcount, cReqs, cExecGood, cOps,
                   cMessages, cHandler, cEverOk, cDirty>>
    /\ UNCHANGED notCursor

\* __iter__, lines 479-487: the list is used up (or _results is the generator
\* not_executed_yet, which raises InterfaceError once and is empty afterwards).
\* Without a locator the generator ends; with one it asks for the next chunk and
\* reads its records and its key nextRecordsUrl.
CurAdvance ==
    /\ cCall # ""
    /\ IF cResults.kind = "fresh"
       THEN /\ EndCall("InterfaceError", cAcc)
            /\ cResults' = Spent
            /\ UNCHANGED <<cNextUrl, gPos, cReqs, cMessages>>
       ELSE /\ cResults.kind = "list" => gPos >= chunks[cResults.chunk].n
            /\ IF cNextUrl = <<>>
               THEN /\ EndCall("", cAcc)
                    /\ UNCHANGED <<cResults, cNextUrl, gPos, cReqs, cMessages>>
               ELSE /\ cReqs' = cReqs + 1
                    /\ IF cNextUrl[1] > Len(chunks)
                       THEN /\ EndCall("SalesforceError", cAcc)
                            /\ cMessages' = Handled(cMessages, "SalesforceError")
                            /\ UNCHANGED <<cResults, cNextUrl, gPos>>
                       ELSE IF chunks[cNextUrl[1]].next = "absent"
                       THEN /\ EndCall("KeyError", cAcc)
                            /\ UNCHANGED <<cResults, cNextUrl, gPos, cMessages>>
                       ELSE /\ cResults' = List(cNextUrl[1])
                            /\ cNextUrl' = UrlAfter(chunks, cNextUrl[1])
                            /\ gPos' = 0
                            /\ UNCHANGED <<cCall, cLast, cErr, cRet, cFetches, cDelivered,
                                           cMessages>>
    /\ UNCHANGED <<cDescription, cRowcount, cRownumber, cWant, cAcc, cExecGood, cOps,
                   cHandler, cEverOk, cDirty>>
    /\ UNCHANGED notCursor

\* ------------------------------- driver.py and utils.py, requests in a batch

SubMethods == {"POST", "DELETE"}
RollbackCodes == {"PROCESSING_HALTED", "ALL_OR_NONE_OPERATION_ROLLED_BACK"}
SubCodes == RollbackCodes \cup {"REQUIRED_FIELD_MISSING", "ENTITY_IS_DELETED"}
\* the entry of a subrequest that succeeded (201 with a body, 204 without) or failed
SubStatusCodes ==
    [status : {201, 204}, code : {"ok"}] \cup [status : {400, 404}, code : SubCodes]
SubResps(n) == [status : {201, 204, 400, 404}, code : SubCodes \cup {"ok"}, ref : 0..(n - 1)]
IsSubResp(x) == [status |-> x.status, code |-> x.code] \in SubStatusCodes
OuterResps == {[status |-> 200, code |-> "ok"], [status |-> 400, code |-> "MALFORMED_QUERY"]}

BatchIdle ==
    /\ bKind = "composite"
    /\ bReq = <<>>
    /\ bResp = <<>>
    /\ bOuter = NoResponse
    /\ bPc = "done"
    /\ bBad = 0
    /\ bOut = NoOutcome
    /\ bLastrowid = <<>>

\* a batch of n subrequests and the entries the server will answer with; the
\* composite resources answer in request order with the referenceId of the request
BatchInit ==
    /\ bKind \in {"composite", "collection", "insert"}
    /\ \E n \in 1..MaxSub :
         /\ bReq \in [1..n -> IF bKind = "composite" THEN SubMethods ELSE {"POST"}]
         /\ bResp \in [1..n -> SubResps(n)]
         /\ \A i \in 1..n :
              /\ IsSubResp(bResp[i])
              /\ bKind # "insert" => bResp[i].ref = i - 1
              /\ bKind = "insert" => bResp[i].code \in {"ok", "REQUIRED_FIELD_MISSING"}
    /\ bOuter = NoResponse
    /\ bPc = "start"
    /\ bBad = 0
    /\ bOut = NoOutcome
    /\ bLastrowid = <<>>

\* composite_request, line 328
IsOk(resp) == \A i \in 1..Len(resp) : resp[i].status < 400

\* bad_responses that holds the failed entries only
BadResponses_FailuresOnly(resp) ==
    {i \in 1..Len(resp) :
        /\ resp[i].status >= 400
        /\ ~(resp[i].status = 400 /\ resp[i].code \in RollbackCodes)}

\* composite_request, lines 333-337: the keys of bad_responses (counted from 1)
BadResponses(resp) ==
    {i \in 1..Len(resp) : ~(resp[i].status = 400 /\ resp[i].code \in RollbackCodes)}

\* Python values by their type, for the arguments of FakeResp
PyInt(n) == [type |-> "int", n |-> n, method |-> "", code |-> ""]
PyJson(c) == [type |-> "str", n |-> 0, method |-> "", code |-> c]
PyDict == [type |-> "dict", n |-> 0, method |-> "", code |-> ""]
\* FakeReq.__init__, lines 383-389
FakeReq(m) == [type |-> "FakeReq", n |-> 0, method |-> m, code |-> ""]

\* FakeResp.__init__(self, status_code, headers, text, request), lines 392-397
FakeResp(a1, a2, a3, a4) == [status_code |-> a1, headers |-> a2, text |-> a3, request |-> a4]

\* composite_request, lines 342-351: FakeResp(httpStatusCode, json.dumps(body),
\* bad_req, bad_resp_headers)
BadResp(m, x) == FakeResp(PyInt(x.status), PyJson(x.code), FakeReq(m), PyDict)

\* raise_errors, lines 284-315, on an object made by FakeResp: line 291 reads
\* response.request.method, line 293 response.headers.get, line 294 parses
\* response.text
RaiseErrorsFake(resp) ==
    LET r == [status |-> resp.status_code.n, code |-> resp.text.code] IN
    IF resp.request.type # "FakeReq" THEN Raised("AttributeError", r)
    ELSE IF resp.headers.type # "dict" THEN Raised("AttributeError", r)
    ELSE IF resp.text.type # "str" THEN Raised("TypeError", r)
    ELSE RaiseErrors(resp.request.method, r)

\* utils.py, lines 259-260: the element of lastrowid for the entry x, or the
\* TypeError of x['body']['id'] on the error list of a failed entry
RowId(x) == IF x.status = 204 THEN <<"referenceId", x.ref>> ELSE <<"id", x.ref>>

\* a lastrowid in the order of the referenceIds
LastRowIds_ByReference(resp) == [i \in 1..Len(resp) |-> <<"id", i - 1>>]

\* CursorWrapper.execute, lines 257-261
LastRowIds(resp) == [i \in 1..Len(resp) |-> RowId(resp[i])]

\* the POST of the batch: handle_api_exceptions('POST', 'composite', ...), line 325,
\* 'composite/sobjects', line 357, and execute_insert, lines 326-348
BatchSend(outer) ==
    /\ bPc = "start"
    /\ bOuter' = outer
    /\ IF outer.status < 400
       THEN bPc' = "got" /\ UNCHANGED bOut
       ELSE bPc' = "done" /\ bOut' = Finish("POST", outer)
    /\ UNCHANGED <<bKind, bReq, bResp, bBad, bLastrowid>>
    /\ UNCHANGED notBatch

\* composite_request, lines 326-340
CompositeCheck ==
    /\ bPc = "got" /\ bKind = "composite"
    /\ IF IsOk(bResp)
       THEN bPc' = "done" /\ bOut' = Returned(bOuter) /\ UNCHANGED bBad
       ELSE IF Cardinality(BadResponses(bResp)) # 1
       THEN bPc' = "done" /\ bOut' = Raised("InternalError", bOuter) /\ UNCHANGED bBad
       ELSE /\ bPc' = "fake"
            /\ bBad' = CHOOSE i \in BadResponses(bResp) : TRUE
            /\ UNCHANGED bOut
    /\ UNCHANGED <<bKind, bReq, bResp, bOuter, bLastrowid>>
    /\ UNCHANGED notBatch

\* composite_request, lines 342-353
CompositeRaise ==
    /\ bPc = "fake"
    /\ bPc' = "done"
    /\ bOut' = RaiseErrorsFake(BadResp(bReq[bBad], bResp[bBad]))
    /\ UNCHANGED <<bKind, bReq, bResp, bOuter, bBad, bLastrowid>>
    /\ UNCHANGED notBatch

\* collection_request, lines 358-369: after bad_responses is built the method ends
CollectionCheck ==
    /\ bPc = "got" /\ bKind = "collection"
    /\ bPc' = "done"
    /\ bOut' = (IF IsOk(bResp) THEN Returned(bOuter) ELSE ReturnedNone(bOuter))
    /\ UNCHANGED <<bKind, bReq, bResp, bOuter, bBad, bLastrowid>>
    /\ UNCHANGED notBatch

\* CursorWrapper.execute, lines 241-261, for the response of execute_insert
InsertParse ==
    /\ bPc = "got" /\ bKind = "insert"
    /\ bPc' = "done"
    /\ IF \E i \in 1..Len(bResp) : bResp[i].status >= 400
       THEN bOut' = Raised("TypeError", bOuter) /\ UNCHANGED bLastrowid
       ELSE bOut' = ReturnedNone(bOuter) /\ bLastrowid' = <<LastRowIds(bResp)>>
    /\ UNCHANGED <<bKind, bReq, bResp, bOuter, bBad>>
    /\ UNCHANGED notBatch

\* ------------------------------------- driver.py, sf_session and make_session

SessInit ==
    /\ connect_lock = {}
    /\ sf_session = <<>>
    /\ sessCount = 0
    /\ sPc = [t \in Threads |-> "idle"]
    /\ sLocal = [t \in Threads |-> 0]
    /\ sGot = [t \in Threads |-> <<>>]
    /\ sUsed = [t \in Threads |-> {}]
    /\ sCalls = [t \in Threads |-> 0]

\* make_session without mutual exclusion
ConnectLockFree_Always == TRUE

\* "with connect_lock": the lock can be taken
ConnectLockFree == connect_lock = {}

\* a cursor of the thread starts a request: Cursor.handle_api_exceptions, lines
\* 539-540, calls the method of its connection, which reads the property
\* sf_session, lines 151-155: "if self._sf_session is None"
SessRead(t) ==
    /\ sPc[t] = "idle"
    /\ sCalls[t] <= MaxCalls
    /\ IF sf_session = <<>>
       THEN sPc' = [sPc EXCEPT ![t] = "ms_acq"] /\ UNCHANGED sGot
       ELSE sPc' = [sPc EXCEPT ![t] = "have"] /\ sGot' = [sGot EXCEPT ![t] = sf_session]
    /\ UNCHANGED <<connect_lock, sf_session, sessCount, sLocal, sUsed, sCalls>>
    /\ UNCHANGED <<oauth_data, oauth_lock, authCount, everFailed>>
    /\ UNCHANGED notSess

\* make_session, line 159: enter "with connect_lock"
SessAcquire(t) ==
    /\ sPc[t] = "ms_acq"
    /\ ConnectLockFree
    /\ connect_lock' = connect_lock \cup {t}
    /\ sPc' = [sPc EXCEPT ![t] = "ms_chk"]
    /\ UNCHANGED <<sf_session, sessCount, sLocal, sGot, sUsed, sCalls>>
    /\ UNCHANGED <<oauth_data, oauth_lock, authCount, everFailed>>
    /\ UNCHANGED notSess

\* make_session, lines 160-161: the second test under the lock and requests.Session()
SessCheck(t) ==
    /\ sPc[t] = "ms_chk"
    /\ IF sf_session = <<>>
       THEN /\ sessCount' = sessCount + 1
            /\ sLocal' = [sLocal EXCEPT ![t] = sessCount + 1]
            /\ sPc' = [sPc EXCEPT ![t] = "ms_auth"]
            /\ UNCHANGED <<connect_lock, sGot>>
       ELSE /\ connect_lock' = connect_lock \ {t}
            /\ sGot' = [sGot EXCEPT ![t] = sf_session]
            /\ sPc' = [sPc EXCEPT ![t] = "have"]
            /\ UNCHANGED <<sessCount, sLocal>>
    /\ UNCHANGED <<sf_session, sUsed, sCalls>>
    /\ UNCHANGED <<oauth_data, oauth_lock, authCount, everFailed>>
    /\ UNCHANGED notSess

\* make_session, line 165: sf_session.auth.instance_url is get_auth(), which enters
\* "with oauth_lock", auth.py line 105
SessAuthAcquire(t) ==
    /\ sPc[t] = "ms_auth"
    /\ LockFree
    /\ oauth_lock' = oauth_lock \cup {t}
    /\ sPc' = [sPc EXCEPT ![t] = "ms_login"]
    /\ UNCHANGED <<connect_lock, sf_session, sessCount, sLocal, sGot, sUsed, sCalls>>
    /\ UNCHANGED <<oauth_data, authCount, everFailed>>
    /\ UNCHANGED notSess

\* get_auth, auth.py lines 106-108, inside make_session: the cached entry, or a login
\* that succeeds or raises; an exception leaves both "with" blocks
SessLogin(t, ok) ==
    /\ sPc[t] = "ms_login"
    /\ IF Alias \in DOMAIN oauth_data
       THEN /\ sPc' = [sPc EXCEPT ![t] = "ms_pub"]
            /\ oauth_lock' = oauth_lock \ {t}
            /\ UNCHANGED <<oauth_data, authCount, everFailed, connect_lock, sCalls>>
       ELSE IF ok
       THEN /\ authCount' = authCount + 1
            /\ oauth_data' = [a \in DOMAIN oauth_data \cup {Alias} |->
                                IF a = Alias THEN authCount + 1 ELSE oauth_data[a]]
            /\ sPc' = [sPc EXCEPT ![t] = "ms_pub"]
            /\ oauth_lock' = oauth_lock \ {t}
            /\ UNCHANGED <<everFailed, connect_lock, sCalls>>
       ELSE /\ everFailed' = TRUE
            /\ oauth_lock' = LeaveOnRaise(oauth_lock, t)
            /\ connect_lock' = LeaveOnRaise(connect_lock, t)
            /\ sPc' = [sPc EXCEPT ![t] = "idle"]
            /\ sCalls' = [sCalls EXCEPT ![t] = @ + 1]
            /\ UNCHANGED <<oauth_data, authCount>>
    /\ UNCHANGED <<sf_session, sessCount, sLocal, sGot, sUsed>>
    /\ UNCHANGED notSess

\* make_session, lines 166-171: mount the adapter, publish the session and leave
\* the lock; the property then returns self._sf_session
SessPublish(t) ==
    /\ sPc[t] = "ms_pub"
    /\ sf_session' = <<sLocal[t]>>
    /\ connect_lock' = connect_lock \ {t}
    /\ sGot' = [sGot EXCEPT ![t] = <<sLocal[t]>>]
    /\ sPc' = [sPc EXCEPT ![t] = "have"]
    /\ UNCHANGED <<sessCount, sLocal, sUsed, sCalls>>
    /\ UNCHANGED <<oauth_data, oauth_lock, authCount, everFailed>>
    /\ UNCHANGED notSess

\* handle_api_exceptions_inter, lines 255-258: session = self.sf_session and
\* session.request(...)
SessRequest(t) ==
    /\ sPc[t] = "have"
    /\ sUsed' = [sUsed EXCEPT ![t] = @ \cup {sGot[t][1]}]
    /\ sCalls' = [sCalls EXCEPT ![t] = @ + 1]
    /\ sPc' = [sPc EXCEPT ![t] = "idle"]
    /\ UNCHANGED <<connect_lock, sf_session, sessCount, sLocal, sGot>>
    /\ UNCHANGED <<oauth_data, oauth_lock, authCount, everFailed>>
    /\ UNCHANGED notSess

\* -------------------------------- backend/utils.py, get_pks_from_query

\* the operands a lookup of the compiled filter can hold: exact keeps a prepared
\* string or an expression, in keeps a sequence or the query of a queryset (the
\* queryset itself before Django 1.11)
Operands(lookup, d111) ==
    IF lookup = "exact" THEN {"str", "query", "queryset"}
    ELSE IF lookup = "in" THEN {"list", "tuple"} \cup (IF d111 THEN {"query"} ELSE {"queryset"})
    ELSE {"str"}

Wheres(d111) ==
    { w \in [connector : {"AND", "OR"}, negated : BOOLEAN, children : 1..MaxTerms,
             lookup_name : {"exact", "in", "gt"}, idColumn : BOOLEAN,
             bilateral_transforms : BOOLEAN, ownModel : BOOLEAN,
             rhs : {"str", "list", "tuple", "query", "queryset"}] :
        w.rhs \in Operands(w.lookup_name, d111) }

PksIdle ==
    /\ pkWhere = [connector |-> "AND", negated |-> FALSE, children |-> 1,
                  lookup_name |-> "exact", idColumn |-> TRUE,
                  bilateral_transforms |-> FALSE, ownModel |-> TRUE, rhs |-> "str"]
    /\ pkBuild = [d111 |-> TRUE, asserts |-> TRUE]
    /\ pkPc = "idle"
    /\ pkSql = ""
    /\ pkOut = [kind |-> "", ids |-> ""]
    /\ pkReqs = 0

PksInit ==
    /\ pkBuild \in [d111 : BOOLEAN, asserts : BOOLEAN]
    /\ pkWhere \in Wheres(pkBuild.d111)
    /\ pkPc = "start"
    /\ pkSql = ""
    /\ pkOut = [kind |-> "", ids |-> ""]
    /\ pkReqs = 0

\* lines 355 and 359-360: the conditions of the optimized branch
Optimized(w) ==
    /\ w.connector = "AND" /\ ~w.negated /\ w.children = 1
    /\ w.lookup_name \in {"exact", "in"}
    /\ w.idColumn
    /\ ~w.bilateral_transforms
    /\ w.ownModel

\* lines 355-377: the optimized branch returns, raises, sets sql or falls through
PksOptimized ==
    /\ pkPc = "start"
    /\ IF ~Optimized(pkWhere)
       THEN pkPc' = "sql" /\ UNCHANGED <<pkSql, pkOut, pkReqs>>
       ELSE IF pkWhere.lookup_name = "exact"
       THEN \* assert isinstance(pks, text_type); return [pks]
            /\ pkPc' = "done"
            /\ pkOut' = IF pkWhere.rhs # "str" /\ pkBuild.asserts
                        THEN [kind |-> "AssertionError", ids |-> ""]
                        ELSE [kind |-> "direct", ids |-> pkWhere.rhs]
            /\ UNCHANGED <<pkSql, pkReqs>>
       ELSE IF pkWhere.rhs \in {"tuple", "list"}
       THEN /\ pkPc' = "done"
            /\ pkOut' = [kind |-> "direct", ids |-> pkWhere.rhs]
            /\ UNCHANGED <<pkSql, pkReqs>>
       ELSE IF pkBuild.d111
       THEN \* sql, params = pks.get_compiler('salesforce').as_sql()
            /\ pkSql' = "sub"
            /\ pkPc' = "sql"
            /\ UNCHANGED <<pkOut, pkReqs>>
       ELSE \* return [x.pk for x in pks]: the queryset runs its query
            /\ pkReqs' = pkReqs + 1
            /\ pkOut' = [kind |-> "subquery", ids |-> "rows"]
            /\ pkPc' = "done"
            /\ UNCHANGED pkSql
    /\ UNCHANGED pkWhere
    /\ UNCHANGED pkBuild
    /\ UNCHANGED notPks

\* lines 378-381: "if not sql": SELECT Id FROM <db_table> WHERE <where>
PksHelper ==
    /\ pkPc = "sql"
    /\ pkSql' = IF pkSql = "" THEN "helper" ELSE pkSql
    /\ pkPc' = "run"
    /\ UNCHANGED <<pkWhere, pkBuild, pkOut, pkReqs>>
    /\ UNCHANGED notPks

\* lines 382-384: cur.execute(sql, params) and the Id of every row
PksExecute ==
    /\ pkPc = "run"
    /\ pkReqs' = pkReqs + 1
    /\ pkOut' = [kind |-> IF pkSql = "sub" THEN "subquery" ELSE "helper", ids |-> "rows"]
    /\ pkPc' = "done"
    /\ UNCHANGED <<pkWhere, pkBuild, pkSql>>
    /\ UNCHANGED notPks

\* ------------------------- auth.py, SalesforcePasswordAuth.authenticate

Passwords == {"bad password", "other bad password"}

LoginIdle ==
    /\ lgPassword = "bad password"
    /\ lgNow = 0
    /\ lgSent = 0
    /\ lgFailed = <<>>
    /\ lgOut = ""
    /\ lgCalls = 0

\* authenticate(), lines 154-185: the login request is posted on every call; the
\* server answers 200 with a good or a bad signature, or another status
LoginAuthenticate(status200, signature) ==
    /\ lgCalls < MaxLogins
    /\ lgCalls' = lgCalls + 1
    /\ lgSent' = lgSent + 1
    /\ lgOut' = IF ~status200 THEN "LookupError"
                ELSE IF ~signature THEN "RuntimeError"
                ELSE "response_data"
    /\ lgFailed' = IF lgOut' = "response_data" THEN lgFailed
                   ELSE <<[password |-> lgPassword, at |-> lgNow]>>
    /\ UNCHANGED <<lgPassword, lgNow>>
    /\ UNCHANGED notLogin

\* the caller changes settings_dict['PASSWORD']
LoginSetPassword(p) ==
    /\ p # lgPassword
    /\ lgPassword' = p
    /\ UNCHANGED <<lgNow, lgSent, lgFailed, lgOut, lgCalls>>
    /\ UNCHANGED notLogin

\* some minutes pass
LoginTick ==
    /\ lgNow < MaxTime
    /\ lgNow' = lgNow + 1
    /\ UNCHANGED <<lgPassword, lgSent, lgFailed, lgOut, lgCalls>>
    /\ UNCHANGED notLogin

\* ------------------------------------------ backend/subselect.py, texts

NoResult == [err |-> "", text |-> <<>>, params |-> <<>>]

SqlIdle ==
    /\ sqlText = <<>>
    /\ sqlStart = 0
    /\ sqlPc = "idle"
    /\ sqlOut = NoResult
    /\ sqlBack = <<>>

\* the symbols that are neither \w nor \s
Punctuation == {"(", ")", ",", "=", ".", "'", "\\", "@", "&", "%", "-", "!", "*",
                "+", ":", "<", ">", "|"}
IsSpace(c) == c \in {" ", "\n"}
IsWord(c) == c \notin Punctuation /\ ~IsSpace(c)

\* sql[i:j] of Python, positions counted from 0
Slice(sql, i, j) == [k \in 1..(IF j > i THEN j - i ELSE 0) |-> sql[i + k]]

\* the texts of the sequence parts put together
RECURSIVE Concat(_)
Concat(parts) ==
    IF Len(parts) = 0 THEN <<>>
    ELSE IF Len(parts) = 1 THEN parts[1]
    ELSE Concat(Slice(parts, 0, Len(parts) \div 2))
         \o Concat(Slice(parts, Len(parts) \div 2, Len(parts)))

\* sep.join(parts)
Join(parts, sep) ==
    Concat([k \in 1..(2 * Len(parts) - 1) |-> IF k % 2 = 1 THEN parts[(k + 1) \div 2] ELSE sep])

\* the first position from i on (from 1) that holds a symbol of the set C, or 0
NextOf(sql, i, C) ==
    LET hits == {k \in i..Len(sql) : sql[k] \in C}
    IN  IF hits = {} THEN 0 ELSE CHOOSE k \in hits : \A h \in hits : k <= h

\* pm_pattern, line 181, tried at the quote before position j (from 1): the position
\* of the closing quote, or 0 when the pattern does not match there
RECURSIVE LiteralEnd(_, _)
LiteralEnd(sql, j) ==
    IF j > Len(sql) THEN 0
    ELSE IF sql[j] = "'" THEN j
    ELSE IF sql[j] = "\\"
    THEN IF j + 1 <= Len(sql) /\ sql[j + 1] \in {"\\", "'"} THEN LiteralEnd(sql, j + 2) ELSE 0
    ELSE LiteralEnd(sql, j + 1)

\* pm_pattern.finditer(sql), line 187: the matches <<first, last>> from position i
\* on; a quote at which the pattern does not match is passed over
RECURSIVE Literals(_, _)
Literals(sql, i) ==
    LET q == NextOf(sql, i, {"'"})
    IN  IF q = 0 THEN <<>>
        ELSE IF LiteralEnd(sql, q + 1) # 0
        THEN <<(<<q, LiteralEnd(sql, q + 1)>>)>> \o Literals(sql, LiteralEnd(sql, q + 1) + 1)
        ELSE Literals(sql, q + 1)

\* bs_pattern.sub('\\1', ...), lines 182 and 190
RECURSIVE Unescape(_)
Unescape(t) ==
    IF Len(t) = 0 THEN <<>>
    ELSE IF t[1] = "\\" /\ Len(t) >= 2 /\ t[2] \in {"\\", "'"}
    THEN <<t[2]>> \o Unescape(Tail(Tail(t)))
    ELSE <<t[1]>> \o Unescape(Tail(t))

\* the asserts of lines 189 and 193 compiled out
OutPattern_Any(t) == TRUE

\* out_pattern, line 183: "^(?:[-!()*+,.:<=>\w\s|%s])*$"
OutPattern(t) ==
    \A k \in 1..Len(t) :
        \/ IsWord(t[k]) \/ IsSpace(t[k])
        \/ t[k] \in {"-", "!", "(", ")", "*", "+", ",", ".", ":", "<", "=", ">", "|", "%"}

\* mark_quoted_strings, lines 177-194
MarkQuotedStrings(sql) ==
    LET ms == Literals(sql, 1)
        n == Len(ms)
        out == [k \in 1..(n + 1) |->
                  Slice(sql, IF k = 1 THEN 0 ELSE ms[k - 1][2],
                             IF k = n + 1 THEN Len(sql) ELSE ms[k][1] - 1)]
        params == [k \in 1..n |-> Unescape(Slice(sql, ms[k][1], ms[k][2] - 1))]
    IN  IF \A k \in 1..(n + 1) : OutPattern(out[k])
        THEN [err |-> "", text |-> Join(out, <<"@">>), params |-> params]
        ELSE [err |-> "AssertionError", text |-> <<>>, params |-> <<>>]

\* sql.split(c)
RECURSIVE Split(_, _)
Split(sql, c) ==
    IF \A k \in 1..Len(sql) : sql[k] # c THEN <<sql>>
    ELSE LET k == CHOOSE k \in 1..Len(sql) : sql[k] = c /\ \A h \in 1..(k - 1) : sql[h] # c
         IN  <<Slice(sql, 0, k - 1)>> \o Split(Slice(sql, k, Len(sql)), c)

\* param.replace(c, by)
Replace(t, c, by) == Concat([k \in 1..Len(t) |-> IF t[k] = c THEN by ELSE <<t[k]>>])

\* a quoting that escapes the quotes only
Quote_QuotesOnly(param) == <<"'">> \o Replace(param, "'", <<"\\", "'">>) \o <<"'">>

\* line 205: "'%s'" % param.replace('\\', '\\\\').replace("\'", "\\\'")
Quote(param) ==
    <<"'">> \o Replace(Replace(param, "\\", <<"\\", "\\">>), "'", <<"\\", "'">>) \o <<"'">>

\* subst_quoted_strings, lines 197-207
SubstQuotedStrings(sql, params) ==
    LET parts == Split(sql, "@")
    IN  IF Len(parts) # Len(params) + 1
        THEN [err |-> "AssertionError", text |-> <<>>]
        ELSE [err |-> "",
              text |-> Join([k \in 1..(2 * Len(params) + 1) |->
                               IF k % 2 = 1 THEN parts[(k + 1) \div 2]
                               ELSE Quote(params[k \div 2])], <<>>)]

\* the texts of at most n symbols of the set A
Texts(A, n) == UNION {[1..k -> A] : k \in 0..n}

QuoteSymbols == {"a", "'", "\\", "@"}

QuoteInit ==
    /\ sqlText \in Texts(QuoteSymbols, MaxLen)
    /\ sqlStart = 0
    /\ sqlPc = "mark"
    /\ sqlOut = NoResult
    /\ sqlBack = <<>>

\* result = mark_quoted_strings(sql)
Mark ==
    /\ sqlPc = "mark"
    /\ sqlOut' = MarkQuotedStrings(sqlText)
    /\ sqlPc' = IF sqlOut'.err = "" THEN "subst" ELSE "failed"
    /\ UNCHANGED <<sqlText, sqlStart, sqlBack>>
    /\ UNCHANGED notSql

\* subst_quoted_strings(*result)
Subst ==
    /\ sqlPc = "subst"
    /\ LET r == SubstQuotedStrings(sqlOut.text, sqlOut.params)
       IN  /\ sqlBack' = r.text
           /\ sqlPc' = IF r.err = "" THEN "done" ELSE "failed"
    /\ UNCHANGED <<sqlText, sqlStart, sqlOut>>
    /\ UNCHANGED notSql

\* --------------------------------- subselect.py, find_closing_parenthesis

NoPair == [err |-> "", found |-> FALSE, opening |-> 0, closing |-> 0]

\* a search that takes the first ")" for the closing one
RECURSIVE FindClosing_FirstClose(_, _, _, _)
FindClosing_FirstClose(sql, i, level, opening) ==
    LET m == NextOf(sql, i + 1, {"(", ")"}) - 1
    IN  IF m = -1 THEN NoPair
        ELSE IF sql[m + 1] = "("
        THEN FindClosing_FirstClose(sql, m + 1, level + 1, IF level = 0 THEN m ELSE opening)
        ELSE IF level = 0 THEN [NoPair EXCEPT !.err = "AssertionError"]
        ELSE [err |-> "", found |-> TRUE, opening |-> opening, closing |-> m + 1]

\* the loop of lines 218-230 over the matches of r'[()]' from position i (counted
\* from 0) on, with the level and the opening position it has so far; the function
\* returns None after the loop
RECURSIVE FindClosing(_, _, _, _)
FindClosing(sql, i, level, opening) ==
    LET m == NextOf(sql, i + 1, {"(", ")"}) - 1
    IN  IF m = -1 THEN NoPair
        ELSE IF sql[m + 1] = "("
        THEN FindClosing(sql, m + 1, level + 1, IF level = 0 THEN m ELSE opening)
        ELSE IF level = 0 THEN [NoPair EXCEPT !.err = "AssertionError"]
        ELSE IF level = 1
        THEN [err |-> "", found |-> TRUE, opening |-> opening, closing |-> m + 1]
        ELSE FindClosing(sql, m + 1, level - 1, opening)

\* find_closing_parenthesis(sql, startpos), lines 210-230
FindClosingParenthesis(sql, startpos) == FindClosing(sql, startpos, 0, 0)

\* the text of test_parenthesis
ParenExample == <<"(", ")", " ", "(", "(", ")", " ", "(", "(", ")", ")", ")", " ", "(", ")">>

ParenInit ==
    /\ sqlText \in Texts({"(", ")", " "}, MaxParen) \cup {ParenExample}
    /\ sqlStart \in 0..Len(sqlText)
    /\ sqlPc = "paren"
    /\ sqlOut = NoPair
    /\ sqlBack = <<>>

Paren ==
    /\ sqlPc = "paren"
    /\ sqlOut' = FindClosingParenthesis(sqlText, sqlStart)
    /\ sqlPc' = IF sqlOut'.err = "" THEN "done" ELSE "failed"
    /\ UNCHANGED <<sqlText, sqlStart, sqlBack>>
    /\ UNCHANGED notSql

\* ------------------------ subselect.py, simplify_expression, split_subquery

\* lines 25-29
RESERVED_WORDS == {"AND", "ASC", "DESC", "EXCLUDES", "FIRST", "FROM", "GROUP", "HAVING",
                   "IN", "INCLUDES", "LAST", "LIKE", "LIMIT", "NOT", "NULL", "NULLS",
                   "OR", "SELECT", "WHERE", "WITH"}

\* txt.strip()
Strip(t) ==
    LET solid == {k \in 1..Len(t) : ~IsSpace(t[k])}
    IN  IF solid = {} THEN <<>>
        ELSE LET a == CHOOSE k \in solid : \A h \in solid : k <= h
                 b == CHOOSE k \in solid : \A h \in solid : k >= h
             IN  Slice(t, a - 1, b)

\* re.sub(r'(?<=\W)\s', '', t)
DropAfterNonWord(t) ==
    Concat([k \in 1..Len(t) |->
              IF IsSpace(t[k]) /\ k > 1 /\ ~IsWord(t[k - 1]) THEN <<>> ELSE <<t[k]>>])

\* re.sub(r'\s(?=\W)', '', t)
DropBeforeNonWord(t) ==
    Concat([k \in 1..Len(t) |->
              IF IsSpace(t[k]) /\ k < Len(t) /\ ~IsWord(t[k + 1]) THEN <<>> ELSE <<t[k]>>])

\* re.sub(r'(,|\b(?:RESERVED_WORDS))\(', '\\1 (', t)
SpaceBeforeOpen(t) ==
    Concat([k \in 1..Len(t) |->
              IF /\ t[k] = "(" /\ k > 1
                 /\ \/ t[k - 1] = ","
                    \/ t[k - 1] \in RESERVED_WORDS /\ (k = 2 \/ ~IsWord(t[k - 2]))
              THEN <<" ", t[k]>> ELSE <<t[k]>>])

\* re.sub(r'\)(?=\w)', ') ', t)
SpaceAfterClose(t) ==
    Concat([k \in 1..Len(t) |->
              IF t[k] = ")" /\ k < Len(t) /\ IsWord(t[k + 1]) THEN <<t[k], " ">> ELSE <<t[k]>>])

\* simplify_expression, lines 268-277
SimplifyExpression(txt) ==
    LET dropped == DropBeforeNonWord(DropAfterNonWord(Strip(txt)))
        minimal == [k \in DOMAIN dropped |-> IF IsSpace(dropped[k]) THEN " " ELSE dropped[k]]
    IN  SpaceAfterClose(SpaceBeforeOpen(minimal))

\* pattern.search(sql, start), lines 256 and 263, pattern r'\(SELECT\b': the
\* position (from 0) of the first match at or after start, or -1
SearchSelect(sql, start) ==
    LET hits == {m \in start..(Len(sql) - 2) :
                    /\ sql[m + 1] = "(" /\ sql[m + 2] = "SELECT"
                    /\ (m + 2 = Len(sql) \/ ~IsWord(sql[m + 3]))}
    IN  IF hits = {} THEN -1 ELSE CHOOSE m \in hits : \A h \in hits : m <= h

RECURSIVE SplitSubquery(_)
RECURSIVE SplitLoop(_, _, _, _)
RECURSIVE InnerSplit(_)

\* a split that keeps the inner text of a sub-query as it is
InnerSplit_Flat(inner) == [err |-> "", text |-> inner, subs |-> <<>>]

\* line 261: split_subquery(sql[start:pos])
InnerSplit(inner) == SplitSubquery(inner)

\* the while loop of split_subquery, lines 257-263
SplitLoop(sql, start, out, subs) ==
    LET m == SearchSelect(sql, start)
        fc == FindClosingParenthesis(sql, m)
    IN  IF m = -1
        THEN [err |-> "", text |-> out \o Slice(sql, start, Len(sql)), subs |-> subs]
        ELSE IF ~fc.found
        THEN [err |-> "TypeError", text |-> <<>>, subs |-> <<>>]
        ELSE LET sub == InnerSplit(Slice(sql, fc.opening + 1, fc.closing - 1))
             IN  IF sub.err # ""
                 THEN [err |-> sub.err, text |-> <<>>, subs |-> <<>>]
                 ELSE SplitLoop(sql, fc.closing - 1,
                                out \o Slice(sql, start, m + 1) \o <<"&">>,
                                Append(subs, sub))

\* split_subquery, lines 247-265
SplitSubquery(sql) ==
    LET marked == MarkQuotedStrings(sql)
    IN  IF marked.err # ""
        THEN [err |-> marked.err, text |-> <<>>, subs |-> <<>>]
        ELSE SplitLoop(SimplifyExpression(marked.text), 0, <<>>, <<>>)

\* SOQL texts with sub-queries nested up to depth d: a field list with or without
\* a sub-query, and no condition, a condition with a literal or one with a sub-query
RECURSIVE Queries(_)
Queries(d) ==
    LET subq == IF d = 0 THEN {} ELSE {<<"(">> \o q \o <<")">> : q \in Queries(d - 1)}
        fieldlists == {<<"a">>} \cup {<<"a", ",", " ">> \o q : q \in subq}
        conditions == {<<>>, <<" ", "WHERE", " ", "c", "=", "'", "x", "'">>}
                      \cup {<<" ", "WHERE", " ", "c", " ", "IN", " ">> \o q : q \in subq}
    IN  {<<"SELECT", " ">> \o f \o <<" ", "FROM", " ", "b">> \o c :
            f \in fieldlists, c \in conditions}

\* the same text written with more whitespace
Padded(q) == <<" ">> \o Replace(Replace(q, "(", <<"(", " ">>), "=", <<" ", "=", "\n">>) \o <<"\n">>

SplitInit ==
    /\ sqlText \in Queries(MaxDepth) \cup {Padded(q) : q \in Queries(MaxDepth)}
    /\ sqlStart = 0
    /\ sqlPc = "split"
    /\ sqlOut = [err |-> "", text |-> <<>>, subs |-> <<>>]
    /\ sqlBack = <<>>

\* split_subquery(sql)
SplitCall ==
    /\ sqlPc = "split"
    /\ sqlOut' = SplitSubquery(sqlText)
    /\ sqlPc' = IF sqlOut'.err = "" THEN "done" ELSE "failed"
    /\ UNCHANGED <<sqlText, sqlStart, sqlBack>>
    /\ UNCHANGED notSql

\* ---- QQuery._from_sql, subselect.py lines 63-115 ----

\* lines 30-32
AGGREGATION_WORDS == {"AVG", "COUNT", "COUNT_DISTINCT", "MIN", "MAX", "SUM"}

\* the descriptor of a query that was not parsed, and the one of a failed parse
NoQuery ==
    [err |-> "", root_table |-> "", aliases |-> <<>>, fields |-> <<>>,
     is_aggregation |-> FALSE, is_plain_count |-> FALSE,
     has_child_rel_field |-> FALSE, subroots |-> {}]
QueryRaised(e) == [NoQuery EXCEPT !.err = e]

\* re.match(r'SELECT (.*) FROM (\w+)\b(.*)$', soql, re.I), line 68: the greedy
\* first group makes the last " FROM word" the one that is taken
MatchParse(soql) ==
    LET froms == {k \in 3..(Len(soql) - 3) :
                     /\ soql[k] = " " /\ soql[k + 1] = "FROM" /\ soql[k + 2] = " "
                     /\ IsWord(soql[k + 3])}
        k == CHOOSE k \in froms : \A h \in froms : h <= k
    IN  IF Len(soql) >= 2 /\ soql[1] = "SELECT" /\ soql[2] = " " /\ froms # {}
        THEN [ok |-> TRUE, fields_sql |-> Slice(soql, 2, k - 1),
              root_table |-> soql[k + 3], extra_soql |-> Slice(soql, k + 3, Len(soql))]
        ELSE [ok |-> FALSE, fields_sql |-> <<>>, root_table |-> "", extra_soql |-> <<>>]

\* pattern_groupby.search(extra_soql), lines 34 and 73
HasGroupBy(t) ==
    \E k \in 1..(Len(t) - 2) : t[k] = "GROUP" /\ t[k + 1] = " " /\ t[k + 2] = "BY"

\* pattern_aggregation.search(field), lines 33 and 74: an aggregation word
\* directly followed by "(", anywhere in the field
HasAggregation(t) ==
    \E k \in 1..(Len(t) - 1) : t[k] \in AGGREGATION_WORDS /\ t[k + 1] = "("

\* line 75: fields[0].upper == 'COUNT()' compares the bound method upper, not
\* its result, with a string: the comparison is false for every field
IsPlainCount(field) == FALSE

\* 'expr{}'.format(expr_alias_counter), line 90
ExprAlias(n) == <<"expr" \o ToString(n)>>

\* the counter stays where it is
NextExprCounter_Stuck(n) == n

\* line 91: expr_alias_counter += 1
NextExprCounter(n) == n + 1

\* the next entry of the list is the one taken before
NextConsumed_Same(n) == n

\* line 96: consumed_subqueries += 1
NextConsumed(n) == n + 1

\* str.lower() of the words used in the queries and in the records
Lower(w) ==
    CASE w = "Contact" -> "contact"
      [] w = "CONTACT" -> "contact"
      [] w = "Account" -> "account"
      [] w = "ACCOUNT" -> "account"
      [] w = "Company" -> "company"
      [] w = "FirstName" -> "firstname"
      [] w = "Name" -> "name"
      [] w = "Id" -> "id"
      [] w = "Owner" -> "owner"
      [] w = "Birthdate" -> "birthdate"
      [] OTHER -> w

\* lines 101-111: the alias of a plain field (the root table in front is removed)
\* and the crumbs that subroots gets for it, as the set of the paths of the
\* nested dictionary
\* the table in front is compared as it is written
SameTable_AsWritten(a, b) == a = b

\* line 103: alias.split('.', 1)[0].lower() == self.root_table.lower()
SameTable(a, b) == Lower(a) = Lower(b)

PlainAlias(field, root_table) ==
    LET parts == Split(field, ".")
    IN  IF Len(parts) > 1 /\ Len(parts[1]) = 1 /\ SameTable(parts[1][1], root_table)
        THEN Slice(field, 2, Len(field))
        ELSE field
Crumbs(alias) ==
    LET parts == Split(alias, ".")
    IN  IF Len(parts) < 2 THEN {}
        ELSE {[h \in 1..n |-> [j \in DOMAIN parts[h] |-> Lower(parts[h][j])]] :
                n \in 1..(Len(parts) - 1)}

\* c in t
Has(t, c) == \E j \in 1..Len(t) : t[j] = c

RECURSIVE FromSql(_)
RECURSIVE FieldLoop(_, _, _, _, _, _)

\* the loop over the fields, lines 81-113; q is the descriptor built so far
FieldLoop(fields, k, subqueries, consumed_subqueries, expr_alias_counter, q) ==
    IF k > Len(fields) THEN q
    ELSE LET field == fields[k]
             append(alias, fld, sub, cnt, cons) ==
                 FieldLoop(fields, k + 1, subqueries, cons, cnt,
                           [q EXCEPT !.aliases = Append(@, alias),
                                     !.fields = Append(@, [text |-> fld, query |-> sub]),
                                     !.has_child_rel_field = @ \/ sub # <<>>,
                                     !.subroots = @ \cup (IF q.is_aggregation \/ sub # <<>>
                                                          THEN {} ELSE Crumbs(alias))])
         IN  IF q.is_aggregation
             THEN LET n == Len(field)
                      match == n > 0 /\ IsWord(field[n])
                      kept == IF match /\ n > 1 /\ field[n - 1] = " " THEN <<" ">> ELSE field
                  IN  IF match /\ field[n] \in RESERVED_WORDS THEN QueryRaised("AssertionError")
                      ELSE IF Has(kept, "&") THEN QueryRaised("AssertionError")
                      ELSE IF match
                      THEN append(<<field[n]>>, kept, <<>>,
                                  expr_alias_counter, consumed_subqueries)
                      ELSE append(ExprAlias(expr_alias_counter), kept, <<>>,
                                  NextExprCounter(expr_alias_counter), consumed_subqueries)
             ELSE IF Has(field, "&")
             THEN IF field # <<"(", "&", ")">> THEN QueryRaised("AssertionError")
                  ELSE LET subquery == FromSql(subqueries[consumed_subqueries + 1].text)
                       IN  IF subquery.err # "" THEN QueryRaised(subquery.err)
                           ELSE append(<<subquery.root_table>>, <<>>, <<subquery>>,
                                       expr_alias_counter, NextConsumed(consumed_subqueries))
             ELSE append(PlainAlias(field, q.root_table), field, <<>>,
                         expr_alias_counter, consumed_subqueries)

\* QQuery(soql), lines 45-115
FromSql(soql) ==
    LET split == SplitSubquery(soql)
        m == MatchParse(split.text)
        fields == LET parts == Split(m.fields_sql, ",")
                  IN  [k \in 1..Len(parts) |-> Strip(parts[k])]
        q == [NoQuery EXCEPT !.root_table = m.root_table,
                             !.is_aggregation = HasGroupBy(m.extra_soql) \/ HasAggregation(fields[1]),
                             !.is_plain_count = IsPlainCount(fields[1])]
    IN  IF split.err # "" THEN QueryRaised(split.err)
        ELSE IF ~m.ok THEN QueryRaised("ProgrammingError")
        ELSE IF q.is_plain_count THEN q
        ELSE FieldLoop(fields, 1, split.subs, 0, 0, q)

\* The queries that are parsed: up to MaxFields fields, each a name, a name with
\* its table or a path of related objects in front, an aggregation with or without an alias, or a sub-query
\* with sub-queries nested in its field list up to MaxNest deep; then nothing,
\* GROUP BY, or a condition with a sub-query.
SubTables == {"y", "q"}
RECURSIVE NestedQueries(_)
NestedQueries(d) ==
    IF d = 0 THEN {}
    ELSE {<<"SELECT", " ", "x", " ", "FROM", " ", t>> : t \in SubTables}
         \cup {<<"SELECT", " ", "x", ",", " ", "(">> \o s \o <<")", " ", "FROM", " ", t>> :
                  s \in NestedQueries(d - 1), t \in SubTables}
FieldItems ==
    {<<"FirstName">>, <<"Contact", ".", "FirstName">>,
     <<"COUNT", "(", "Id", ")", " ", "xcount">>, <<"COUNT", "(", "Phone", ")">>,
     <<"COUNT", "(", ")">>, <<"MAX", "(", "Id", ")", " ", "LIMIT">>,
     <<"Contact", ".", "Account", ".", "Name">>, <<"Account", ".", "Company">>,
     <<"CONTACT", ".", "Contact", ".", "Name">>}
    \cup {<<"(">> \o s \o <<")">> : s \in NestedQueries(MaxNest)}
Extras ==
    {<<>>, <<" ", "GROUP", " ", "BY", " ", "FirstName">>,
     <<" ", "WHERE", " ", "c", " ", "IN", " ", "(", "SELECT", " ", "x", " ", "FROM", " ", "y", ")">>}
QueryText(items, extra) ==
    <<"SELECT", " ">> \o Join(items, <<",", " ">>) \o <<" ", "FROM", " ", "Contact">> \o extra

QueryInit ==
    /\ \E items \in UNION {[1..n -> FieldItems] : n \in 1..MaxFields}, extra \in Extras :
          /\ sqlText = QueryText(items, extra)
          /\ sqlBack = items
    /\ sqlStart = 0
    /\ sqlPc = "query"
    /\ sqlOut = NoQuery

\* QQuery(sql)
QueryCall ==
    /\ sqlPc = "query"
    /\ sqlOut' = FromSql(sqlText)
    /\ sqlPc' = IF sqlOut'.err = "" THEN "parsed" ELSE "raised"
    /\ UNCHANGED <<sqlText, sqlStart, sqlBack>>
    /\ UNCHANGED notSql

\* ---- QQuery._make_flat and parse_rest_response, subselect.py lines 117-161 ----

\* The values of a JSON response: None, a text, an integer, or a dict, which is a
\* function of its keys.
None == [kind |-> "None", v |-> "", n |-> 0, d |-> <<>>]
Str(s) == [kind |-> "str", v |-> s, n |-> 0, d |-> <<>>]
Num(i) == [kind |-> "int", v |-> "", n |-> i, d |-> <<>>]
Dict(f) == [kind |-> "dict", v |-> "", n |-> 0, d |-> f]
Datetime(s) == [kind |-> "datetime", v |-> s, n |-> 0, d |-> <<>>]

FlatIdle ==
    /\ flResp = [records |-> <<>>, totalSize |-> 0, done |-> TRUE]
    /\ flPc = "idle"
    /\ flOut = <<>>
    /\ flErr = ""

\* the texts that SF_DATETIME_PATTERN matches, line 165
DatetimeTexts == {"2020-01-01T00:00:00.000+0000"}

\* the text is returned as it is
FixDataType_Text(x) == x

\* fix_data_type, lines 168-174
FixDataType(x) == IF x.kind = "str" /\ x.v \in DatetimeTexts THEN Datetime(x.v) ELSE x

\* str.lower() of a text
LowerText(t) == [j \in DOMAIN t |-> Lower(t[j])]

\* subroots as the set of its paths: klc in subroots, and subroots[klc]
InSubroots(subroots, klc) == \E p \in subroots : p[1] = <<klc>>
SubrootsAt(subroots, klc) == {Tail(p) : p \in {r \in subroots : r[1] = <<klc>> /\ Len(r) > 1}}

\* lines 123-125: the value is no dict, or it is the result of a sub-query
IsLeaf(x) == x.kind # "dict" \/ {"done", "records", "totalSize"} \subseteq DOMAIN x.d

\* lines 129-133: for a leaf whose key is in subroots, the entries None of the
\* aliases that start with the path of the key
EmptyJoin(aliases, path, klc) ==
    LET strpath == Join([h \in 1..(Len(path) + 1) |->
                            <<(path \o <<klc>>)[h]>>], <<".">>) \o <<".">>
        strip_pos == Len(strpath) - 2
    IN  {<<Slice(LowerText(a), strip_pos, Len(a)), None>> :
            a \in {b \in aliases : IsPrefix(strpath, LowerText(b))}}

\* _make_flat, lines 117-138: the flat dict as the set of its <<key, value>>
\* entries, or the exception raised
RECURSIVE MakeFlat(_, _, _, _)
MakeFlat(row_dict, path, subroots, aliases) ==
    LET keys == DOMAIN row_dict
        below(k) == MakeFlat(row_dict[k].d, Append(path, Lower(k)),
                             IF k # "attributes" THEN SubrootsAt(subroots, Lower(k)) ELSE {},
                             aliases)
        nested == {k \in keys : ~IsLeaf(row_dict[k])}
        entries(k) ==
            IF IsLeaf(row_dict[k])
            THEN IF ~InSubroots(subroots, Lower(k)) THEN {<< <<Lower(k)>>, row_dict[k] >>}
                 ELSE EmptyJoin(aliases, path, Lower(k))
            ELSE {<< <<Lower(k), ".">> \o e[1], e[2] >> : e \in below(k).out}
    IN  IF \E k \in nested : k # "attributes" /\ ~InSubroots(subroots, Lower(k))
        THEN [err |-> "KeyError", out |-> {}]
        ELSE IF \E k \in nested : below(k).err # ""
        THEN [err |-> (CHOOSE e \in {below(k).err : k \in nested} : e # ""), out |-> {}]
        ELSE [err |-> "", out |-> UNION {entries(k) : k \in keys}]

\* lines 150-155: the row of one record, or the exception raised; the assert of
\* line 153 runs over the keys of row_flat, which are texts, and never fails
RowOf(q, row_deep) ==
    LET row_flat == MakeFlat(row_deep, <<>>, q.subroots, {q.aliases[i] : i \in 1..Len(q.aliases)})
        has(key) == \E e \in row_flat.out : e[1] = key
        get(key) == (CHOOSE e \in row_flat.out : e[1] = key)[2]
    IN  IF "attributes" \notin DOMAIN row_deep \/ row_deep["attributes"].kind # "dict"
           \/ "type" \notin DOMAIN row_deep["attributes"].d
        THEN [err |-> "KeyError", row |-> <<>>]
        ELSE IF q.is_aggregation # (row_deep["attributes"].d["type"] = Str("AggregateResult"))
        THEN [err |-> "AssertionError", row |-> <<>>]
        ELSE IF row_flat.err # "" THEN [err |-> row_flat.err, row |-> <<>>]
        ELSE IF \E i \in 1..Len(q.aliases) : ~has(LowerText(q.aliases[i]))
        THEN [err |-> "KeyError", row |-> <<>>]
        ELSE [err |-> "", row |-> [i \in 1..Len(q.aliases) |->
                                      FixDataType(get(LowerText(q.aliases[i])))]]

\* the loop over the records, lines 149-155: what is yielded until the first
\* exception
RECURSIVE YieldRows(_, _, _, _)
YieldRows(q, records, i, out) ==
    IF i > Len(records) THEN [err |-> "", out |-> out]
    ELSE LET r == RowOf(q, records[i])
         IN  IF r.err # "" THEN [err |-> r.err, out |-> out]
             ELSE YieldRows(q, records, i + 1, Append(out, r.row))

\* list(parse_rest_response(response)) for a response that is done, lines 140-161
ParseRestResponse(q, resp) ==
    IF q.is_plain_count
    THEN IF resp.records # <<>> THEN [err |-> "AssertionError", out |-> <<>>]
         ELSE [err |-> "", out |-> <<Num(resp.totalSize)>>]
    ELSE YieldRows(q, resp.records, 1, <<>>)

\* The queries whose responses are parsed, each with the records the server may
\* answer: a field of a related object (written in two spellings), a field two
\* objects away, a date field, the bare COUNT(), an aggregation and a child
\* relationship. A related object is a dict, null, or not in the record at all.
Attr(t) == Dict([type |-> Str(t), url |-> Str("/services/data")])
WithAccount(accounts) ==
    {[attributes |-> Attr("Contact"), Id |-> Str("003")]}
    \cup {[attributes |-> Attr("Contact"), Id |-> Str("003"), Account |-> a] : a \in accounts}
NamedAccounts ==
    {None} \cup {Dict([attributes |-> Attr("Account"), Name |-> n]) : n \in {Str("X"), None}}
OwnedAccounts ==
    {None, Dict([attributes |-> Attr("Account")]),
     Dict([attributes |-> Attr("Account"), Owner |-> None]),
     Dict([attributes |-> Attr("Account"),
           Owner |-> Dict([attributes |-> Attr("User"), Name |-> Str("Y")])])}
FlatCases ==
    {[items |-> << <<"Id">>, <<"Account", ".", "Name">> >>, extra |-> <<>>,
      records |-> WithAccount(NamedAccounts), sizes |-> {}],
     [items |-> << <<"Id">>, <<"ACCOUNT", ".", "Name">> >>, extra |-> <<>>,
      records |-> WithAccount(NamedAccounts), sizes |-> {}],
     [items |-> << <<"Id">>, <<"Account", ".", "Owner", ".", "Name">> >>, extra |-> <<>>,
      records |-> WithAccount(OwnedAccounts), sizes |-> {}],
     [items |-> << <<"Id">>, <<"Birthdate">> >>, extra |-> <<>>,
      records |-> {[attributes |-> Attr("Contact"), Id |-> Str("003"), Birthdate |-> b] :
                      b \in {Str("2020-01-01T00:00:00.000+0000"), Str("X"), None}},
      sizes |-> {}],
     [items |-> << <<"COUNT", "(", ")">> >>, extra |-> <<>>,
      records |-> {}, sizes |-> 0..MaxRecs],
     [items |-> << <<"FirstName">>, <<"COUNT", "(", "Id", ")", " ", "xcount">> >>,
      extra |-> <<" ", "GROUP", " ", "BY", " ", "FirstName">>,
      records |-> {[attributes |-> Attr(t), FirstName |-> Str("X"), xcount |-> Num(2)] :
                      t \in {"AggregateResult", "Contact"}},
      sizes |-> {}],
     [items |-> << <<"FirstName">>, <<"(", "SELECT", " ", "x", " ", "FROM", " ", "y", ")">> >>,
      extra |-> <<>>,
      records |-> {[attributes |-> Attr("Contact"), FirstName |-> Str("X"), y |-> c] :
                      c \in {None, Dict([done |-> Str("true"), records |-> Str("[...]"),
                                         totalSize |-> Num(1)])}},
      sizes |-> {}]}

FlatInit ==
    /\ \E case \in FlatCases :
          /\ sqlText = QueryText(case.items, case.extra)
          /\ sqlBack = case.items
          /\ \E records \in Texts(case.records, MaxRecs) :
                flResp \in [records : {records},
                            totalSize : IF case.sizes = {} THEN {Len(records)} ELSE case.sizes,
                            done : {TRUE}]
    /\ sqlStart = 0
    /\ sqlPc = "query"
    /\ sqlOut = NoQuery
    /\ flPc = "idle"
    /\ flOut = <<>>
    /\ flErr = ""

\* list(QQuery(sql).parse_rest_response(response))
FlatParse ==
    /\ sqlPc = "parsed"
    /\ flPc = "idle"
    /\ LET res == ParseRestResponse(sqlOut, flResp)
       IN  /\ flOut' = res.out
           /\ flErr' = res.err
           /\ flPc' = IF res.err = "" THEN "ended" ELSE "raised"
    /\ UNCHANGED flResp
    /\ UNCHANGED notFlat

\* ---- the service of a SELECT: dbapi Cursor.execute and CursorWrapper.execute_select ----

SvcIdle ==
    /\ svCalls = <<>>
    /\ svErr = ""

\* driver.py line 515: service = 'query' if queryall else 'queryAll'
ServiceOf(queryall) == IF queryall THEN "query" ELSE "queryAll"

\* utils.py line 303: service = 'query' if not getattr(self.query, 'is_query_all', False)
\* else 'queryAll'
WrapperServiceOf(is_query_all) == IF ~is_query_all THEN "query" ELSE "queryAll"

\* Cursor.execute(operation, parameters, queryall), driver.py lines 462-469, with
\* execute_select, lines 513-517
DbapiExecute(sqltype, queryall) ==
    /\ Len(svCalls) < MaxExec
    /\ IF sqltype = "SELECT"
       THEN /\ svCalls' = Append(svCalls, [via |-> "dbapi", sqltype |-> sqltype,
                                           queryall |-> queryall, service |-> ServiceOf(queryall)])
            /\ svErr' = ""
       ELSE /\ svCalls' = Append(svCalls, [via |-> "dbapi", sqltype |-> sqltype,
                                           queryall |-> queryall, service |-> ""])
            /\ svErr' = "ProgrammingError"
    /\ UNCHANGED notSvc

\* CursorWrapper.execute_select(q, args), utils.py lines 301-317; migrations: q is
\* MIGRATIONS_QUERY_TO_BE_IGNORED, which is answered without a request
WrapperExecuteSelect(is_query_all, migrations) ==
    /\ Len(svCalls) < MaxExec
    /\ svCalls' = Append(svCalls, [via |-> "backend", sqltype |-> "SELECT",
                                   queryall |-> is_query_all,
                                   service |-> IF migrations THEN ""
                                               ELSE WrapperServiceOf(is_query_all)])
    /\ svErr' = ""
    /\ UNCHANGED notSvc

ServiceNext ==
    \/ \E sqltype \in {"SELECT", "UPDATE"}, queryall \in BOOLEAN : DbapiExecute(sqltype, queryall)
    \/ \E is_query_all \in BOOLEAN, migrations \in BOOLEAN :
          WrapperExecuteSelect(is_query_all, migrations)

\* ---------------------------------------------------------- specifications

\* Spec: NThreads threads, each with its connection, share oauth_data
Next ==
    \E t \in Threads :
        \/ StartCall(t, {"GET"}, {FALSE})
        \/ BeginRequest(t)
        \/ Send(t, FewResponses)
        \/ Reauthenticate(t)
        \/ DelTokenAcquire(t)
        \/ DelToken(t)
        \/ GetAuthAcquire(t)
        \/ GetAuthCheck(t)
        \/ \E ok \in BOOLEAN : Authenticate(t, ok)
        \/ GetAuthReturn(t)
        \/ Return(t)

Init == ApiInit /\ PageIdle /\ CursorNew /\ cHandler = FALSE /\ BatchIdle /\ SessInit /\ PksIdle /\ SvcIdle /\ FlatIdle /\ SqlIdle /\ LoginIdle

Spec == Init /\ [][Next]_vars

\* SpecCall: one thread, every method and response, static and dynamic authentication
CallNext ==
    \/ StartCall(1, Methods, BOOLEAN)
    \/ StartDelete(1, BOOLEAN)
    \/ StartUpdate(1, BOOLEAN)
    \/ BeginRequest(1)
    \/ Send(1, AllResponses)
    \/ Reauthenticate(1)
    \/ DelTokenAcquire(1)
    \/ DelToken(1)
    \/ GetAuthAcquire(1)
    \/ GetAuthCheck(1)
    \/ \E ok \in BOOLEAN : Authenticate(1, ok)
    \/ GetAuthReturn(1)
    \/ DynamicStart(1)
    \/ DynamicEnd(1)
    \/ Return(1)

\* the cache is empty or holds the token of another database alias, which an
\* earlier connection has stored
InitCall ==
    /\ oauth_data \in {[a \in {} |-> 0], [a \in {OtherAlias} |-> 0]}
    /\ ApiStart
    /\ PageIdle
    /\ CursorNew /\ cHandler = FALSE
    /\ BatchIdle
    /\ SessInit
    /\ PksIdle /\ SvcIdle /\ FlatIdle /\ SqlIdle /\ LoginIdle

SpecCall == InitCall /\ [][CallNext]_vars

\* SpecPage: one generator of parse_rest_response or query_results is consumed
PageNext == PageYield \/ PageAdvance

InitPage == ApiInit /\ PageInit /\ CursorNew /\ cHandler = FALSE /\ BatchIdle /\ SessInit /\ PksIdle /\ SvcIdle /\ FlatIdle /\ SqlIdle /\ LoginIdle

SpecPage == InitPage /\ [][PageNext]_vars

\* SpecCursor: one dbapi cursor and the operations of its caller
CursorNext ==
    \/ \E sel \in BOOLEAN, params \in BOOLEAN, srv \in BOOLEAN : Execute(sel, params, srv)
    \/ Close
    \/ FetchOne
    \/ \E size \in 0..MaxFetch : Fetch("fetchmany", size)
    \/ Fetch("fetchall", 0)
    \/ Fetch("iter", 0)
    \/ \E stop \in BOOLEAN : CurYield(stop)
    \/ CurAdvance

InitCursor ==
    /\ ApiInit
    /\ CursorInit
    /\ pgKind = "parse" /\ pgCursor = FALSE /\ pgPc = "ended" /\ pgChunk = 1 /\ pgPos = 0
    /\ pgOut = <<>> /\ pgMore = <<>> /\ pgErr = ""
    /\ BatchIdle
    /\ SessInit /\ PksIdle /\ SvcIdle /\ FlatIdle /\ SqlIdle /\ LoginIdle

SpecCursor == InitCursor /\ [][CursorNext]_vars

\* SpecBatch: one composite_request, collection_request or multi-record INSERT
BatchNext ==
    \/ \E outer \in OuterResps : BatchSend(outer)
    \/ CompositeCheck
    \/ CompositeRaise
    \/ CollectionCheck
    \/ InsertParse

InitBatch ==
    /\ ApiInit
    /\ PageIdle
    /\ CursorNew /\ cHandler = FALSE
    /\ BatchInit
    /\ SessInit /\ PksIdle /\ SvcIdle /\ FlatIdle /\ SqlIdle /\ LoginIdle

SpecBatch == InitBatch /\ [][BatchNext]_vars

\* SpecSession: the threads of one connection and its session
SessionNext ==
    \E t \in Threads :
        \/ SessRead(t)
        \/ SessAcquire(t)
        \/ SessCheck(t)
        \/ SessAuthAcquire(t)
        \/ \E ok \in BOOLEAN : SessLogin(t, ok)
        \/ SessPublish(t)
        \/ SessRequest(t)

SpecSession == Init /\ [][SessionNext]_vars

\* the threads of one process: each starts requests (get_auth and del_token under
\* oauth_lock) and opens the session of the connection (make_session under
\* connect_lock, get_auth inside it), one of the two at a time
LocksNext ==
    \E t \in Threads :
        \/ sPc[t] = "idle" /\ StartCall(t, {"GET"}, {FALSE})
        \/ BeginRequest(t)
        \/ Send(t, FewResponses)
        \/ Reauthenticate(t)
        \/ DelTokenAcquire(t)
        \/ DelToken(t)
        \/ GetAuthAcquire(t)
        \/ GetAuthCheck(t)
        \/ \E ok \in BOOLEAN : Authenticate(t, ok)
        \/ GetAuthReturn(t)
        \/ Return(t)
        \/ pc[t] \in {"idle", "done"} /\ SessRead(t)
        \/ SessAcquire(t)
        \/ SessCheck(t)
        \/ SessAuthAcquire(t)
        \/ \E ok \in BOOLEAN : SessLogin(t, ok)
        \/ SessPublish(t)
        \/ SessRequest(t)

SpecLocks == Init /\ [][LocksNext]_vars

\* SpecPks: get_pks_from_query on every filter shape
InitPks ==
    /\ ApiInit
    /\ PageIdle
    /\ CursorNew /\ cHandler = FALSE
    /\ BatchIdle
    /\ SessInit
    /\ PksInit /\ SvcIdle /\ FlatIdle /\ SqlIdle /\ LoginIdle

PksNext ==
    \/ PksOptimized
    \/ PksHelper
    \/ PksExecute

SpecPks == InitPks /\ [][PksNext]_vars

\* SpecLogin: repeated authenticate() of one auth object
LoginNext ==
    \/ \E status200 \in BOOLEAN, signature \in BOOLEAN : LoginAuthenticate(status200, signature)
    \/ \E p \in Passwords : LoginSetPassword(p)
    \/ LoginTick

SpecLogin == Init /\ [][LoginNext]_vars

\* SpecQuote: mark_quoted_strings and subst_quoted_strings on every short text
InitQuote ==
    /\ ApiInit
    /\ PageIdle
    /\ CursorNew /\ cHandler = FALSE
    /\ BatchIdle
    /\ SessInit
    /\ PksIdle /\ SvcIdle /\ FlatIdle /\ LoginIdle
    /\ QuoteInit

QuoteNext == Mark \/ Subst

SpecQuote == InitQuote /\ [][QuoteNext]_vars

\* SpecParen: find_closing_parenthesis on every short text and start position
InitParen ==
    /\ ApiInit
    /\ PageIdle
    /\ CursorNew /\ cHandler = FALSE
    /\ BatchIdle
    /\ SessInit
    /\ PksIdle /\ SvcIdle /\ FlatIdle /\ LoginIdle
    /\ ParenInit

ParenNext == Paren

SpecParen == InitParen /\ [][ParenNext]_vars

\* SpecSplit: split_subquery on queries with nested sub-queries
InitSplit ==
    /\ ApiInit
    /\ PageIdle
    /\ CursorNew /\ cHandler = FALSE
    /\ BatchIdle
    /\ SessInit
    /\ PksIdle /\ SvcIdle /\ FlatIdle /\ LoginIdle
    /\ SplitInit

SplitNext == SplitCall

SpecSplit == InitSplit /\ [][SplitNext]_vars

InitQuery ==
    /\ ApiInit
    /\ PageIdle
    /\ CursorNew /\ cHandler = FALSE
    /\ BatchIdle
    /\ SessInit
    /\ PksIdle /\ SvcIdle /\ FlatIdle /\ LoginIdle
    /\ QueryInit

QueryParseNext == QueryCall

SpecQuery == InitQuery /\ [][QueryParseNext]_vars

InitFlat ==
    /\ ApiInit
    /\ PageIdle
    /\ CursorNew /\ cHandler = FALSE
    /\ BatchIdle
    /\ SessInit
    /\ PksIdle /\ SvcIdle /\ LoginIdle
    /\ FlatInit

FlatNext == QueryCall \/ FlatParse

SpecFlat == InitFlat /\ [][FlatNext]_vars

SpecService == Init /\ [][ServiceNext]_vars

\* ------------------------------------------------------------------ claims

InvalidSession == [status |-> 401, code |-> "INVALID_SESSION_ID"]
LastResp(t) == resps[t][Len(resps[t])]
Over(t) == pc[t] \in {"done", "idle"}

\* C1: a call sends its request at most twice and calls reauthenticate() at most
\* once; a second request is sent only after a first response 401 INVALID_SESSION_ID,
\* and with the response to the retry the call is over, whatever that response is.
C1_AtMostOneRetry ==
    \A t \in Threads :
        /\ Len(sent[t]) <= 2
        /\ reauth[t] <= 1
        /\ Len(sent[t]) = 2 => resps[t][1] = InvalidSession /\ reauth[t] = 1
        /\ Len(resps[t]) = 2 => Over(t)

C1_Witness ==
    \E t \in Threads : pc[t] = "done" /\ resps[t] = <<InvalidSession, InvalidSession>>

\* C2: when the first response is 401 INVALID_SESSION_ID and the retry is answered
\* with an ok status, the call returns the retried response after exactly one
\* reauthenticate(); the token of the retry was issued by an authenticate() that ran
\* after this call's del_token() removed the cache entry, so it is neither the
\* rejected token nor the removed entry.
C2_RetryWithFreshToken ==
    \A t \in Threads :
        (Len(resps[t]) = 2 /\ resps[t][2].status \in OkStatuses) =>
            /\ outcome[t] = Returned(resps[t][2])
            /\ reauth[t] = 1
            /\ delTok[t] # <<>>
            /\ sent[t][1] <= delTok[t][1]
            /\ delTok[t][1] < sent[t][2]

C2_Witness ==
    \E t \in Threads :
        /\ pc[t] = "done"
        /\ Len(resps[t]) = 2 /\ resps[t][2].status = 200
        /\ outcome[t].kind = "response"
        /\ sent[t][1] < delTok[t][1]

C4_TimeoutIsFatal ==
    \A t \in Threads : \A i \in 1..Len(resps[t]) :
        resps[t][i] = Timeout =>
            /\ i = Len(resps[t])
            /\ Over(t)
            /\ outcome[t] = Raised("SalesforceError", Timeout)
            /\ Len(sent[t]) = i
            /\ reauth[t] = i - 1

C4_Witness ==
    \E t \in Threads : pc[t] = "done" /\ resps[t] = <<Timeout>> /\ reauth[t] = 0

\* C5: a finished call whose last response is not ok returns None exactly when the
\* method is DELETE, the status 404 and the errorCode ENTITY_IS_DELETED or
\* INVALID_CROSS_REFERENCE_KEY, and then the delete of one record leaves rowcount 0;
\* in every other case the call raises an error.
DeletedCodes == {"ENTITY_IS_DELETED", "INVALID_CROSS_REFERENCE_KEY"}

C5_IdempotentDelete ==
    \A t \in Threads :
        (pc[t] = "done" /\ Len(resps[t]) >= 1 /\ LastResp(t).status \notin OkStatuses) =>
            IF method[t] = "DELETE" /\ LastResp(t).status = 404
               /\ LastResp(t).code \in DeletedCodes
            THEN /\ outcome[t].kind = "None"
                 /\ op[t] = "delete" => rowcount[t] = <<0>>
            ELSE IsError(outcome[t])

C5_Witness ==
    \E t \in Threads :
        /\ pc[t] = "done" /\ op[t] = "delete" /\ npk[t] = 1
        /\ resps[t] = <<[status |-> 404, code |-> "ENTITY_IS_DELETED"]>>
        /\ outcome[t].kind = "None" /\ rowcount[t] = <<0>>

\* C6: as long as no entry was deleted and no login failed, authenticate() has run
\* at most once, and every thread that got a token from get_auth() got the one
\* published in oauth_data by that single authenticate().
C6_AuthenticateOnce ==
    (~everDeleted /\ ~everFailed) =>
        /\ authCount <= 1
        /\ \A t \in Threads :
             tok[t] # <<>> =>
                 /\ authCount = 1
                 /\ Alias \in DOMAIN oauth_data
                 /\ tok[t] = <<oauth_data[Alias]>>

C6_Witness ==
    /\ ~everDeleted /\ ~everFailed /\ authCount = 1
    /\ \A t \in Threads : tok[t] = <<1>> /\ pc[t] = "send"

\* C7 as stated: no reauthenticate() fails because the cache entry is already gone
\* (the KeyError of "del oauth_data[alias]").
C7_ReauthenticateNeverFails ==
    \A t \in Threads : ~(reauth[t] = 1 /\ outcome[t].kind = "KeyError")

\* C8: for n chunks of which the first n-1 have done=false and a locator and the
\* last has done=true, a generator that has a cursor never fails, the rows it has
\* yielded are a prefix of the concatenation of the chunks' records and its
\* query_more calls are a prefix of the locators of chunks 1..n-1 in order; when it
\* ends it has yielded all the rows and has called query_more exactly n-1 times.
PagedResponse(cs) ==
    /\ \A i \in 1..(Len(cs) - 1) : ~cs[i].done /\ cs[i].next = "url"
    /\ cs[Len(cs)].done

C8_ChunksConcatenated ==
    (PagedResponse(chunks) /\ pgCursor) =>
        /\ pgPc # "failed"
        /\ IsPrefix(pgOut, AllRows(chunks))
        /\ pgMore = [i \in 1..(pgChunk - 1) |-> i]
        /\ pgPc = "ended" =>
             /\ pgOut = AllRows(chunks)
             /\ pgMore = [i \in 1..(Len(chunks) - 1) |-> i]

C8_Witness ==
    /\ PagedResponse(chunks) /\ pgCursor /\ pgKind = "parse"
    /\ Len(chunks) = 2 /\ chunks[1].n = 2 /\ chunks[2].n = 1 /\ chunks[2].next = "url"
    /\ pgPc = "ended"
    /\ pgOut = <<<<1, 1>>, <<1, 2>>, <<2, 1>>>>
    /\ pgMore = <<1>>

\* the responses to a SELECT are well formed: n chunks, the first n-1 with
\* done=false and the key nextRecordsUrl, the last with done=true and without it
WellFormed(cs) ==
    \A i \in 1..Len(cs) :
        /\ cs[i].done = (i = Len(cs))
        /\ cs[i].next = (IF cs[i].done THEN "absent" ELSE "url")

\* C9 as stated: on well-formed responses execute() of a SELECT does not fail and
\* sets rowcount to totalSize, and the fetchall() that follows it does not fail and
\* returns the concatenation of the records of all chunks, for a single chunk
\* without a continuation request.
C9_SelectFetchAll ==
    (WellFormed(chunks) /\ cExecGood) =>
        /\ cLast = "execute" => cErr = "" /\ cRowcount = TotalSize(chunks)
        /\ (cLast = "fetchall" /\ cFetches = 1) =>
             /\ cErr = ""
             /\ cRet = AllRows(chunks)
             /\ cRowcount = TotalSize(chunks)
             /\ Len(chunks) = 1 => cReqs = 0

\* C10 as stated: between two execute() calls the row stream is consumed at most
\* once: the rows that the fetch calls since a successful execute() have returned,
\* in the order of the calls, are consecutive segments of the result, so together
\* a prefix of it.
C10_ConsumedOnce ==
    (WellFormed(chunks) /\ cExecGood /\ cLast # "execute" /\ cCall = "") =>
        IsPrefix(cDelivered, AllRows(chunks))

\* C11 as stated: a fetch call (other than fetchmany(0), which asks for nothing) on
\* a cursor on which no execute() has succeeded since it was constructed or closed
\* ends with an error, returns no rows and sends no request.
FetchOps == {"fetchone", "fetchmany", "fetchall", "iter"}

C11_FetchBeforeExecute ==
    (~cEverOk /\ cCall = "" /\ cLast \in FetchOps /\ ~(cLast = "fetchmany" /\ cWant = 0)) =>
        /\ cErr # ""
        /\ cRet = <<>>
        /\ cReqs = 0

\* C12: after an execute() call, whether it succeeds or raises, the attributes hold
\* either the values of _clean() or the values of the new statement's response, and
\* messages holds nothing but the error of this execute(): nothing of the statement
\* before is left.
C12_ExecuteResets ==
    (cLast = "execute" /\ cCall = "") =>
        /\ cMessages = (IF cHandler /\ cErr = "SalesforceError" THEN <<cErr>> ELSE <<>>)
        /\ IF cErr \in {"ProgrammingError", "TypeError", "SalesforceError"}
           THEN /\ cDescription = "None" /\ cRowcount = -1 /\ cRownumber = <<>>
                /\ cNextUrl = <<>> /\ cResults = Fresh
           ELSE /\ cDescription = "()" /\ cRowcount = TotalSize(chunks) /\ cRownumber = <<0>>
                /\ IF cErr = "KeyError"
                   THEN cNextUrl = <<>> /\ cResults = Fresh
                   ELSE cNextUrl = UrlAfter(chunks, 1) /\ cResults = List(1)

\* a second statement that fails, after a first one that had left its rowcount, a
\* locator and a message of the errorhandler
C12_Witness ==
    /\ cLast = "execute" /\ cCall = "" /\ cDirty /\ cErr = "ProgrammingError"
    /\ cMessages = <<>> /\ cRowcount = -1 /\ cNextUrl = <<>> /\ cResults = Fresh
    /\ cHandler /\ Len(chunks) = 2 /\ chunks[2].next = "url"

\* C17 as stated: an UPDATE or DELETE whose id set is empty sends no request and
\* leaves rowcount 0.
C17_EmptyIdSet ==
    \A t \in Threads :
        (pc[t] = "done" /\ op[t] \in {"update", "delete"} /\ npk[t] = 0) =>
            /\ sent[t] = <<>>
            /\ rowcount[t] = <<0>>

\* C16 as stated: a call that ends in raise_errors with a response that is not ok
\* and not the accepted delete raises OperationalError carrying the HTTP status when
\* the body is no JSON error list, and otherwise a SalesforceError that carries the
\* errorCode and the message of the first error.
ReachedRaiseErrors(t) ==
    /\ pc[t] = "done" /\ Len(resps[t]) >= 1
    /\ LastResp(t) # Timeout /\ LastResp(t).status \notin OkStatuses
    /\ AfterResponse(Len(resps[t]), LastResp(t)) = "finish"

C16_TypedError ==
    \A t \in Threads :
        (ReachedRaiseErrors(t) /\ outcome[t].kind # "None") =>
            LET e == ErrorObject(LastResp(t)) IN
            IF LastResp(t).code = "nojson"
            THEN outcome[t].kind = "OperationalError" /\ e.status
            ELSE outcome[t].kind = "SalesforceError" /\ e.errorCode /\ e.message

\* the entries that are real failures: not ok and not one of the placeholders that
\* the server puts in for the subrequests it rolled back
Placeholder(x) == x.status = 400 /\ x.code \in RollbackCodes
RealFailures(resp) == {i \in 1..Len(resp) : resp[i].status >= 400 /\ ~Placeholder(resp[i])}
CompositeDone == bKind = "composite" /\ bPc = "done" /\ bOuter.status < 400

\* C13 as stated: when exactly one entry of the composite response is a real
\* failure, composite_request ends as raise_errors ends for an individual request
\* with the method of that subrequest and the status and error body of that entry.
C13_SameErrorAsSingle ==
    (CompositeDone /\ Cardinality(RealFailures(bResp)) = 1) =>
        \A i \in RealFailures(bResp) : bOut = RaiseErrors(bReq[i], bResp[i])

\* C14: when the composite response has an entry with httpStatusCode >= 400 and the
\* number of entries that are not rollback placeholders is not one, composite_request
\* raises InternalError.
C14_InternalError ==
    (/\ CompositeDone
     /\ \E i \in 1..Len(bResp) : bResp[i].status >= 400
     /\ Cardinality({i \in 1..Len(bResp) : ~Placeholder(bResp[i])}) # 1) =>
        bOut.kind = "InternalError"

\* one success and one real failure: two entries are not placeholders
C14_Witness ==
    /\ CompositeDone /\ Len(bResp) = 2
    /\ bResp[1].status = 201 /\ bResp[2].status = 400 /\ bResp[2].code = "REQUIRED_FIELD_MISSING"
    /\ bOut.kind = "InternalError"

\* C15 as stated: when an entry of the collections response has success=false,
\* collection_request raises an error.
C15_CollectionRaises ==
    (bKind = "collection" /\ bPc = "done" /\ bOuter.status < 400 /\ ~IsOk(bResp)) =>
        IsError(bOut)

\* C19: after a multi-record INSERT whose n subrequests all created their record,
\* lastrowid is a list of n ids, the i-th the id of the i-th entry of
\* compositeResponse whatever its referenceId; when the entries are in request
\* order it is the id of the i-th record, whose referenceId is str(i - 1).
InsertDone ==
    /\ bKind = "insert" /\ bPc = "done" /\ bOuter.status < 400 /\ Len(bResp) >= 2
    /\ \A i \in 1..Len(bResp) : bResp[i].status = 201

C19_LastrowidByPosition ==
    InsertDone =>
        /\ bLastrowid # <<>>
        /\ Len(bLastrowid[1]) = Len(bResp)
        /\ \A i \in 1..Len(bResp) :
             /\ bLastrowid[1][i] = <<"id", bResp[i].ref>>
             /\ (\A j \in 1..Len(bResp) : bResp[j].ref = j - 1) =>
                    bLastrowid[1][i] = <<"id", i - 1>>

C19_Witness ==
    /\ InsertDone /\ Len(bResp) = 3
    /\ \A j \in 1..3 : bResp[j].ref = j - 1
    /\ bLastrowid = << << <<"id", 0>>, <<"id", 1>>, <<"id", 2>> >> >>

\* C20: the threads of one connection never get or use two different sessions, and
\* a published session is never replaced; as long as no login has failed at most
\* one session object has been constructed, and it is the one every thread uses.
C20_OneSession ==
    /\ \A t \in Threads : \A u \in Threads :
         (sGot[t] # <<>> /\ sGot[u] # <<>>) => sGot[t] = sGot[u]
    /\ \A t \in Threads :
         /\ sGot[t] # <<>> => sGot[t] = sf_session
         /\ sUsed[t] \subseteq {sf_session[i] : i \in 1..Len(sf_session)}
    /\ ~everFailed => sessCount <= 1

\* both threads found _sf_session None at their first access and have sent their
\* requests through the one session
C20_Witness ==
    /\ sessCount = 1 /\ sf_session = <<1>> /\ ~everFailed
    /\ \A t \in Threads : sUsed[t] = {1} /\ sCalls[t] = 1 /\ sLocal[t] + sLocal[3 - t] = 1

\* the filter is one non-negated AND-connected exact/in condition on Id of the
\* query's own model
Simple(w) ==
    /\ w.connector = "AND" /\ ~w.negated /\ w.children = 1
    /\ w.lookup_name \in {"exact", "in"} /\ w.idColumn /\ w.ownModel

Literal(w) == w.rhs \in {"str", "list", "tuple"}

\* C18: when get_pks_from_query is done, it has returned the operand without a
\* request exactly for a simple condition with a literal operand, it has executed
\* the sub-query for a simple condition whose operand is a sub-query, and it has
\* executed exactly one helper query in every other case.
C18_PksFromQuery ==
    pkPc = "done" =>
        /\ (pkOut.kind = "direct" /\ pkReqs = 0) <=> (Simple(pkWhere) /\ Literal(pkWhere))
        /\ (Simple(pkWhere) /\ ~Literal(pkWhere)) => (pkOut.kind = "subquery" /\ pkReqs = 1)
        /\ ~Simple(pkWhere) => (pkOut.kind = "helper" /\ pkReqs = 1)

\* C21 as stated: with an errorhandler installed it is invoked exactly once for
\* every call that ends with an exception, and never without one.
C21_HandlerOncePerFailure ==
    \A t \in Threads :
        (pc[t] = "done" /\ IsError(outcome[t])) =>
            handled[t] = (IF eh[t] THEN 1 ELSE 0)

\* C22: a get_auth() that returns by the cache leaves an entry for the alias and
\* returns it; del_token() removes the entry of the alias and no other; the
\* get_auth() that follows a del_token() of the same statement returns a token of a
\* login made after the deletion, and the alias has this entry again.
C22_TokenLifeCycle ==
    /\ [][\A t \in Threads :
            /\ (pc[t] = "ga_ret" /\ pc'[t] \notin {"ga_ret", "done"}) =>
                   /\ Alias \in DOMAIN oauth_data'
                   /\ tok'[t] = <<oauth_data'[Alias]>>
            /\ (pc[t] = "dt_del" /\ pc'[t] = "ga_acq") =>
                   /\ Alias \in DOMAIN oauth_data
                   /\ DOMAIN oauth_data' = DOMAIN oauth_data \ {Alias}
                   /\ \A a \in DOMAIN oauth_data' : oauth_data'[a] = oauth_data[a]]_vars
    /\ [](\A t \in Threads :
            (delTok[t] # <<>> /\ pc[t] \in {"auth", "send", "reauth"}) =>
                /\ Alias \in DOMAIN oauth_data
                /\ tok[t] = <<oauth_data[Alias]>>
                /\ tok[t][1] > delTok[t][1])

\* the statement has got the token 1, deleted it and got the token 2, while the
\* entry of the other alias has stayed
C22_Witness ==
    /\ pc[1] = "send" /\ delTok[1] = <<1>> /\ tok[1] = <<2>>
    /\ DOMAIN oauth_data = {Alias, OtherAlias}
    /\ oauth_data[Alias] = 2 /\ oauth_data[OtherAlias] = 0

\* C23 as stated: an authenticate() that follows a failed one at once and with the
\* same password fails without a login request; with another password, or after
\* some minutes, the login request is sent.
C23_FloodProtection ==
    [][lgCalls' = lgCalls + 1 =>
          IF lgFailed # <<>> /\ lgFailed[1].password = lgPassword /\ lgFailed[1].at = lgNow
          THEN lgSent' = lgSent /\ lgOut' # "response_data"
          ELSE lgSent' = lgSent + 1]_vars

\* the number of symbols c in the text t
Count(t, c) == Cardinality({k \in 1..Len(t) : t[k] = c})

\* C24: for every text that mark_quoted_strings accepts, subst_quoted_strings gives
\* the text back, the marked text has as many '@' as there are params, and the
\* k-th param is the unescaped body of the k-th literal of the text.
C24_MarkSubstRoundTrip ==
    /\ sqlPc \in {"subst", "done"} =>
          /\ Count(sqlOut.text, "@") = Len(sqlOut.params)
          /\ Len(sqlOut.params) = Len(Literals(sqlText, 1))
          /\ \A k \in 1..Len(sqlOut.params) :
                LET m == Literals(sqlText, 1)[k]
                IN  Quote(sqlOut.params[k]) = Slice(sqlText, m[1] - 1, m[2])
    /\ sqlPc = "done" => sqlBack = sqlText
    /\ sqlPc = "failed" => sqlOut.err = "AssertionError"

\* the text a'\\\''a has come back through "a@a" and the param \'
C24_Witness ==
    /\ sqlPc = "done"
    /\ sqlText = <<"a", "'", "\\", "\\", "'">>
    /\ sqlOut.text = <<"a", "@">> /\ sqlOut.params = <<(<<"\\">>)>>
    /\ sqlBack = sqlText

\* the positions of the text that no recognized literal covers
Outside(sql) ==
    {k \in 1..Len(sql) :
        \A h \in 1..Len(Literals(sql, 1)) :
            k < Literals(sql, 1)[h][1] \/ k > Literals(sql, 1)[h][2]}

\* C25: mark_quoted_strings raises, and returns nothing, whenever a quote or a
\* backslash stays outside the recognized literals; a returned marked text holds
\* no quote.
C25_QuotingErrorRaises ==
    sqlPc # "mark" =>
        /\ (\E k \in Outside(sqlText) : sqlText[k] \in {"'", "\\"}) =>
               (sqlOut.err = "AssertionError" /\ sqlPc = "failed" /\ sqlOut.text = <<>>)
        /\ sqlOut.err = "" => Count(sqlOut.text, "'") = 0

\* a'a''a : the literal 'a' is recognized and the quote after it is left over
C25_Witness ==
    /\ sqlPc = "failed" /\ sqlOut.err = "AssertionError"
    /\ sqlText = <<"a", "'", "a", "'", "'">>

\* the "(" minus the ")" among the positions o..k-1 (counted from 0) of the text
Depth(sql, o, k) ==
    Cardinality({h \in (o + 1)..k : sql[h] = "("}) - Cardinality({h \in (o + 1)..k : sql[h] = ")"})

\* sql[o:c] starts with "(", never closes more than it has opened, and closes all
Balanced(sql, o, c) ==
    /\ c > o /\ sql[o + 1] = "("
    /\ \A k \in (o + 1)..(c - 1) : Depth(sql, o, k) > 0
    /\ Depth(sql, o, c) = 0

\* the positions from startpos on that hold the symbol c
From(sql, startpos, c) == {k \in startpos..(Len(sql) - 1) : sql[k + 1] = c}

\* C26: the call returns (o, c) only with o the first "(" at or after startpos and
\* sql[o:c] balanced, and it returns such a pair whenever no ")" comes before that
\* "(" and the "(" is closed somewhere; it raises when a ")" at or after startpos
\* comes while no parenthesis is open; the example gives (0,2), (3,12), (13,15)
\* and an error.
C26_ClosingParenthesis ==
    sqlPc \in {"done", "failed"} =>
        LET opens == From(sqlText, sqlStart, "(")
            closes == From(sqlText, sqlStart, ")")
            stray == \E k \in closes : \A o \in opens : k < o
        IN  /\ sqlOut.found =>
                  /\ sqlOut.opening \in opens
                  /\ \A o \in opens : sqlOut.opening <= o
                  /\ Balanced(sqlText, sqlOut.opening, sqlOut.closing)
            /\ stray <=> sqlOut.err = "AssertionError"
            /\ (~stray /\ \E o \in opens : \E c \in 1..Len(sqlText) :
                    (\A p \in opens : o <= p) /\ Balanced(sqlText, o, c)) => sqlOut.found
            /\ sqlText = ParenExample =>
                  /\ sqlStart = 0 => (sqlOut.found /\ sqlOut.opening = 0 /\ sqlOut.closing = 2)
                  /\ sqlStart = 2 => (sqlOut.found /\ sqlOut.opening = 3 /\ sqlOut.closing = 12)
                  /\ sqlStart = 13 => (sqlOut.found /\ sqlOut.opening = 13 /\ sqlOut.closing = 15)
                  /\ sqlStart = 1 => sqlOut.err = "AssertionError"

\* the example searched from position 2: the pair (3, 12) spans nested pairs
C26_Witness ==
    /\ sqlPc = "done" /\ sqlText = ParenExample /\ sqlStart = 2
    /\ sqlOut.found /\ sqlOut.opening = 3 /\ sqlOut.closing = 12

\* the spans "(SELECT ... )" of the text s as pairs <<o, c>>, s[o:c] in Python's
\* terms, found by counting parentheses: c is the first position at which as many
\* parentheses are closed as were opened from o on
SelectSpans(s) ==
    LET starts == {o \in 0..(Len(s) - 2) : s[o + 1] = "(" /\ s[o + 2] = "SELECT"}
        ends(o) == {c \in (o + 1)..Len(s) : Depth(s, o, c) = 0}
    IN  {<<o, CHOOSE c \in ends(o) : \A d \in ends(o) : c <= d>> :
            o \in {p \in starts : ends(p) # {}}}

\* the spans that lie in no other span
OuterSpans(s) ==
    LET all == SelectSpans(s)
    IN  {oc \in all : \A pd \in all : ~(pd[1] < oc[1] /\ oc[2] <= pd[2])}

\* the text s with the inside of every outermost span replaced by "&"
Collapsed(s) ==
    LET outer == OuterSpans(s)
    IN  Concat([k \in 1..Len(s) |->
                  IF \E oc \in outer : oc[1] + 1 < k /\ k < oc[2] THEN <<>>
                  ELSE IF \E oc \in outer : k = oc[1] + 1 THEN <<"(", "&">>
                  ELSE <<s[k]>>])

\* r is the split of the simplified text s: its text is s collapsed, it has one
\* entry per span in the order of the text, and every entry is in turn the split
\* of the inner text of its span
RECURSIVE IsSplitOf(_, _)
IsSplitOf(r, s) ==
    LET outer == OuterSpans(s)
        nth(k) == CHOOSE oc \in outer : Cardinality({pd \in outer : pd[1] < oc[1]}) = k - 1
    IN  /\ r.text = Collapsed(s)
        /\ Count(r.text, "&") = Len(r.subs)
        /\ Len(r.subs) = Cardinality(outer)
        /\ \A k \in 1..Len(r.subs) :
              IsSplitOf(r.subs[k], SimplifyExpression(Slice(s, nth(k)[1] + 1, nth(k)[2] - 1)))

\* C27: what split_subquery returns is the top-level text with every outermost
\* (SELECT ...) span replaced by (&), and a list with one entry per placeholder in
\* the order of the text, each the split of the inner text of its span; without a
\* sub-query the list is empty.
C27_SplitShape ==
    sqlPc = "done" =>
        /\ IsSplitOf(sqlOut, SimplifyExpression(MarkQuotedStrings(sqlText).text))
        /\ Count(sqlText, "(") = 0 => sqlOut.subs = <<>>

\* a sub-query in a sub-query of the field list, and a second sub-query in the
\* condition: two entries, the first with an entry of its own
C27_Witness ==
    /\ sqlPc = "done"
    /\ Len(sqlOut.subs) = 2
    /\ sqlOut.text = <<"SELECT", " ", "a", ",", " ", "(", "&", ")", " ", "FROM", " ", "b",
                       " ", "WHERE", " ", "c", " ", "IN", " ", "(", "&", ")">>
    /\ sqlOut.subs[1].text = <<"SELECT", " ", "a", ",", " ", "(", "&", ")", " ", "FROM", " ", "b">>
    /\ Len(sqlOut.subs[1].subs) = 1
    /\ sqlOut.subs[1].subs[1].text = <<"SELECT", " ", "a", " ", "FROM", " ", "b">>
    /\ sqlOut.subs[2].subs = <<>>
    /\ sqlText[1] = " "

\* the text of a split with every "&" replaced by the text of its entry
RECURSIVE Rebuilt(_)
Rebuilt(r) ==
    Concat([k \in 1..Len(r.text) |->
              IF r.text[k] = "&"
              THEN Rebuilt(r.subs[Cardinality({h \in 1..k : r.text[h] = "&"})])
              ELSE <<r.text[k]>>])

\* C28 as stated: split_subquery succeeds on every text with balanced parentheses
\* and properly escaped quotes, and the placeholders and markers put back give the
\* original text as simplify_expression normalizes it.
C28_SplitRoundTrip ==
    sqlPc \in {"done", "failed"} =>
        /\ sqlOut.err = ""
        /\ SubstQuotedStrings(Rebuilt(sqlOut), MarkQuotedStrings(sqlText).params).text
             = SubstQuotedStrings(SimplifyExpression(MarkQuotedStrings(sqlText).text),
                                  MarkQuotedStrings(sqlText).params).text

\* the number of sub-query levels below a descriptor
RECURSIVE TreeDepth(_)
TreeDepth(q) ==
    LET below == {1 + TreeDepth(q.fields[k].query[1]) :
                     k \in {h \in 1..Len(q.fields) : q.fields[h].query # <<>>}}
    IN  IF below = {} THEN 0 ELSE CHOOSE d \in below : \A e \in below : e <= d

\* the query is an aggregation query in the sense of C30: GROUP BY is present, or
\* the first field starts with an aggregation word followed by "("
AggregationQuery ==
    \/ HasGroupBy(sqlText)
    \/ Len(sqlBack[1]) > 1 /\ sqlBack[1][1] \in AGGREGATION_WORDS /\ sqlBack[1][2] = "("

\* the nesting depth of the field list as written: every item of the field list
\* is a chain of nested sub-queries, one SELECT per level
NestingDepth ==
    LET levels == {Count(sqlBack[k], "SELECT") : k \in 1..Len(sqlBack)}
    IN  CHOOSE d \in levels : \A e \in levels : e <= d

\* C29 as stated: a query with a sub-query in the field list of a sub-query of its
\* field list is parsed, the descriptor tree is as deep as the nesting, and the
\* sub-queries are taken in the order of the text (each sub-query field holds the
\* descriptor of the sub-query written at its place).
C29_NestedParse ==
    (sqlPc \in {"parsed", "raised"} /\ NestingDepth >= 2 /\ ~AggregationQuery) =>
        /\ sqlOut.err = ""
        /\ TreeDepth(sqlOut) = NestingDepth
        /\ \A k \in 1..Len(sqlBack) :
              sqlBack[k][1] = "(" =>
                  /\ sqlOut.fields[k].query # <<>>
                  /\ sqlOut.fields[k].query[1].root_table = sqlBack[k][Len(sqlBack[k]) - 1]

\* the alias names expr0, expr1, ...
ExprNames == <<"expr0", "expr1", "expr2", "expr3", "expr4", "expr5">>

\* the aliases C30 gives to the fields as written: the trailing identifier, or
\* expr<N> with N the number of earlier fields without one
TrailingIdentifier(item) == IsWord(item[Len(item)])
ClaimedAliases ==
    [k \in 1..Len(sqlBack) |->
        IF TrailingIdentifier(sqlBack[k]) THEN <<sqlBack[k][Len(sqlBack[k])]>>
        ELSE <<ExprNames[1 + Cardinality({h \in 1..(k - 1) : ~TrailingIdentifier(sqlBack[h])})]>>]

\* C30: a parsed query has as many aliases as fields, and in an aggregation query
\* the alias of a field is its trailing identifier, or expr<N> counted from 0 over
\* the fields without one.
C30_AggregationAliases ==
    sqlPc = "parsed" =>
        /\ Len(sqlOut.aliases) = Len(sqlOut.fields)
        /\ AggregationQuery => sqlOut.aliases = ClaimedAliases

\* SELECT FirstName, COUNT(Id) xcount, COUNT(Phone) FROM Contact GROUP BY FirstName
C30_Witness ==
    /\ sqlPc = "parsed"
    /\ sqlBack = << <<"FirstName">>, <<"COUNT", "(", "Id", ")", " ", "xcount">>,
                    <<"COUNT", "(", "Phone", ")">> >>
    /\ HasGroupBy(sqlText)
    /\ sqlOut.aliases = << <<"FirstName">>, <<"xcount">>, <<"expr0">> >>
    /\ sqlOut.is_aggregation

\* the table a sub-query item of the field list is written for: the symbol before
\* its closing parenthesis
WrittenTable(item) == item[Len(item) - 1]
IsSubquery(item) == item[1] = "("

\* C31: in a parsed query that is no aggregation query every sub-query field has
\* the root table of the sub-query written at its place as alias and holds the
\* descriptor of that sub-query, and has_child_rel_field says whether there is
\* such a field.
C31_ChildRelationship ==
    (sqlPc = "parsed" /\ ~AggregationQuery) =>
        /\ \A k \in 1..Len(sqlBack) :
              IsSubquery(sqlBack[k]) =>
                  /\ sqlOut.aliases[k] = <<WrittenTable(sqlBack[k])>>
                  /\ sqlOut.fields[k].query # <<>>
                  /\ sqlOut.fields[k].query[1].root_table = WrittenTable(sqlBack[k])
                  /\ sqlOut.fields[k].query[1].aliases = << <<"x">> >>
        /\ sqlOut.has_child_rel_field <=> \E k \in 1..Len(sqlBack) : IsSubquery(sqlBack[k])

\* SELECT FirstName, (SELECT x FROM q), (SELECT x FROM y) FROM Contact
C31_Witness ==
    /\ sqlPc = "parsed"
    /\ sqlBack = << <<"FirstName">>, <<"(", "SELECT", " ", "x", " ", "FROM", " ", "q", ")">>,
                    <<"(", "SELECT", " ", "x", " ", "FROM", " ", "y", ")">> >>
    /\ sqlOut.aliases = << <<"FirstName">>, <<"q">>, <<"y">> >>
    /\ sqlOut.has_child_rel_field
    /\ ~sqlOut.is_aggregation

\* a plain field reference: names joined by dots
IsPlain(item) == \A j \in 1..Len(item) : IsWord(item[j]) \/ item[j] = "."
Segments(item) == [k \in 1..((Len(item) + 1) \div 2) |-> item[2 * k - 1]]

\* the spellings of the root table of the queries, Contact
RootSpellings == {"Contact", "CONTACT", "contact"}

\* the segments of a plain field that stay in its alias: the root table in front
\* is dropped once
AliasSegments(item) ==
    LET seg == Segments(item)
    IN  IF Len(seg) > 1 /\ seg[1] \in RootSpellings THEN Tail(seg) ELSE seg
Dotted(seg) == [k \in 1..(2 * Len(seg) - 1) |-> IF k % 2 = 1 THEN seg[(k + 1) \div 2] ELSE "."]

\* the paths of subroots that the plain fields as written ask for: for every
\* alias every proper prefix of its segments, in lower case
ClaimedSubroots ==
    UNION {{[h \in 1..n |-> <<Lower(AliasSegments(sqlBack[k])[h])>>] :
               n \in 1..(Len(AliasSegments(sqlBack[k])) - 1)} :
           k \in {h \in 1..Len(sqlBack) : IsPlain(sqlBack[h])}}

\* C32: in a parsed query that is no aggregation query the alias of a plain field
\* is the field without the root table in front (compared without regard to case,
\* removed once), and subroots holds, nested in path order and in lower case,
\* every segment but the last of every alias that still has dots.
C32_PlainAliases ==
    (sqlPc = "parsed" /\ ~AggregationQuery) =>
        /\ \A k \in 1..Len(sqlBack) :
              IsPlain(sqlBack[k]) => sqlOut.aliases[k] = Dotted(AliasSegments(sqlBack[k]))
        /\ sqlOut.subroots = ClaimedSubroots

\* SELECT Contact.FirstName, Contact.Account.Name, Account.Company FROM Contact
C32_Witness ==
    /\ sqlPc = "parsed"
    /\ sqlBack = << <<"Contact", ".", "FirstName">>, <<"Contact", ".", "Account", ".", "Name">>,
                    <<"Account", ".", "Company">> >>
    /\ sqlOut.aliases = << <<"FirstName">>, <<"Account", ".", "Name">>,
                           <<"Account", ".", "Company">> >>
    /\ sqlOut.subroots = { << <<"account">> >> }

\* the query is SELECT COUNT() FROM Contact
PlainCountQuery == sqlBack = << <<"COUNT", "(", ")">> >> /\ ~HasGroupBy(sqlText)

\* C33 as stated: the bodiless COUNT() query is recognised as a plain count, gets
\* no alias, and parse_rest_response yields for it exactly one value, the
\* totalSize of the response.
C33_PlainCount ==
    PlainCountQuery =>
        /\ sqlPc = "parsed" => sqlOut.is_plain_count /\ sqlOut.aliases = <<>>
        /\ flPc # "idle" => flErr = "" /\ flOut = <<Num(flResp.totalSize)>>

\* the value of a record under a path of keys, the keys compared without regard
\* to case; None when an object on the way is null or not there
RECURSIVE ValueAt(_, _)
ValueAt(d, seg) ==
    LET ks == {k \in DOMAIN d : Lower(k) = Lower(seg[1])}
        x == d[CHOOSE k \in ks : TRUE]
    IN  IF ks = {} THEN None
        ELSE IF Len(seg) = 1 THEN x
        ELSE IF x.kind = "dict" THEN ValueAt(x.d, Tail(seg))
        ELSE None

\* an object on the way to the field is null or not in the record
RECURSIVE Absent(_, _)
Absent(d, seg) ==
    /\ Len(seg) > 1
    /\ LET ks == {k \in DOMAIN d : Lower(k) = Lower(seg[1])}
           x == d[CHOOSE k \in ks : TRUE]
       IN  \/ ks = {}
           \/ x.kind = "None"
           \/ x.kind = "dict" /\ Absent(x.d, Tail(seg))

\* C34 as stated: a record whose related object is null or missing, at the top
\* level or deeper, still gives a full row, with None for every alias below
\* that object.
C34_EmptyOuterJoin ==
    (flPc # "idle" /\ ~AggregationQuery) =>
        /\ flErr = ""
        /\ Len(flOut) = Len(flResp.records)
        /\ \A i \in 1..Len(flOut) :
              /\ Len(flOut[i]) = Len(sqlBack)
              /\ \A j \in 1..Len(sqlBack) :
                    (IsPlain(sqlBack[j]) /\ Absent(flResp.records[i], AliasSegments(sqlBack[j])))
                        => flOut[i][j] = None

\* a text of the form of a date and time is read as one
AsValue(x) == IF x.kind = "str" /\ x.v \in DatetimeTexts THEN Datetime(x.v) ELSE x

\* the names of a dotted alias
Names(alias) == [k \in 1..((Len(alias) + 1) \div 2) |-> alias[2 * k - 1]]

\* C35: every row yielded for a query that is no plain count has one value per
\* alias, the i-th the value of the record under the path of the i-th alias
\* (keys compared without regard to case, a date and time read as one), and no
\* value of the row is the attributes entry or one of its values.
C35_RowShape ==
    (flPc # "idle" /\ ~sqlOut.is_plain_count) =>
        \A i \in 1..Len(flOut) :
            /\ Len(flOut[i]) = Len(sqlOut.aliases)
            /\ \A j \in 1..Len(sqlOut.aliases) :
                  /\ flOut[i][j] = AsValue(ValueAt(flResp.records[i], Names(sqlOut.aliases[j])))
                  /\ flOut[i][j] # flResp.records[i]["attributes"]
                  /\ \A a \in DOMAIN flResp.records[i]["attributes"].d :
                        flOut[i][j] # flResp.records[i]["attributes"].d[a]

\* SELECT Id, Account.Name FROM Contact with Account.Name = 'X' in the first
\* record and a null Account in the second
C35_Witness ==
    /\ flPc = "ended"
    /\ sqlBack = << <<"Id">>, <<"Account", ".", "Name">> >>
    /\ Len(flResp.records) = 2
    /\ flOut = << <<Str("003"), Str("X")>>, <<Str("003"), None>> >>

\* C36 as stated: a SELECT executed with the flag off goes to the service query,
\* with the flag on to queryAll, through the dbapi cursor as through the
\* CursorWrapper.
C36_QueryAllService ==
    \A i \in 1..Len(svCalls) :
        svCalls[i].service # "" =>
            svCalls[i].service = IF svCalls[i].queryall THEN "queryAll" ELSE "query"

\* C37 as stated: after an UPDATE of k >= 1 ids that succeeded, rowcount is k.
C37_UpdateRowcount ==
    \A t \in Threads :
        (pc[t] = "done" /\ op[t] = "update" /\ npk[t] >= 1 /\ ~IsError(outcome[t])) =>
            rowcount[t] = <<npk[t]>>

\* the thread is inside "with oauth_lock": get_auth, del_token, or get_auth called
\* by make_session
InsideOauth(t) == pc[t] \in {"ga_chk", "ga_auth", "ga_ret", "dt_del"} \/ sPc[t] = "ms_login"

\* the thread is inside "with connect_lock" of make_session
InsideConnect(t) == sPc[t] \in {"ms_chk", "ms_auth", "ms_login", "ms_pub"}

WantsConnect(t) == sPc[t] = "ms_acq"

WantsOauth(t) == sPc[t] = "ms_auth" \/ pc[t] \in {"ga_acq", "dt_acq"}

\* the thread waits for a lock that another thread holds
Blocked(t) ==
    \/ WantsConnect(t) /\ connect_lock \ {t} # {}
    \/ WantsOauth(t) /\ oauth_lock \ {t} # {}

LocksHeldInside ==
    \A t \in Threads :
        /\ t \in oauth_lock <=> InsideOauth(t)
        /\ t \in connect_lock <=> InsideConnect(t)
        /\ WantsConnect(t) => t \notin oauth_lock
        /\ Blocked(t) => \E u \in (connect_lock \cup oauth_lock) \ {t} : ~Blocked(u)

ConnectBeforeOauth ==
    \A t \in Threads :
        /\ t \in connect_lock' \ connect_lock => t \notin oauth_lock
        /\ t \in (oauth_lock' \ oauth_lock) \cap connect_lock => t \in connect_lock'

\* C38: the two module locks cannot deadlock. A thread holds a lock exactly while it
\* is inside the "with" block of that lock, so both locks are released on every path
\* out of the blocks, the exception of authenticate() included; a thread that takes
\* or waits for connect_lock holds no oauth_lock, so a thread holding both took
\* connect_lock first; a waiting thread always waits for a thread that is not
\* waiting itself, and some step is enabled whenever a thread waits.
C38_LockOrder ==
    /\ [](LocksHeldInside /\ ((\E t \in Threads : Blocked(t)) => ENABLED LocksNext))
    /\ [][ConnectBeforeOauth]_vars

\* a failed login has happened, one thread holds oauth_lock alone inside get_auth of
\* a request, and another holds connect_lock in make_session and waits for oauth_lock
C38_Witness ==
    /\ everFailed
    /\ \E a, b \in Threads :
         /\ a # b
         /\ pc[a] = "ga_auth" /\ a \in oauth_lock /\ a \notin connect_lock
         /\ sPc[b] = "ms_auth" /\ b \in connect_lock /\ Blocked(b)

\* the step in which authenticate() raises inside get_auth() of thread t
AuthRaises(t) == pc[t] = "ga_auth" /\ pc'[t] = "done"

\* the step in which get_auth() of thread t returns a token
AuthReturns(t) == pc[t] = "ga_ret" /\ pc'[t] \notin {"ga_ret", "done"}

FailedLoginStep ==
    \A t \in Threads :
        /\ AuthRaises(t) =>
             /\ oauth_data' = oauth_data
             /\ Alias \notin DOMAIN oauth_data'
             /\ oauth_lock' = {}
             /\ outcome'[t].kind \in {"LookupError", "RuntimeError"}
             /\ tok'[t] = tok[t]
        /\ (everFailed /\ pc[t] = "ga_chk" /\ pc'[t] # "ga_chk") =>
             pc'[t] = (IF Alias \in DOMAIN oauth_data THEN "ga_ret" ELSE "ga_auth")
        /\ (everFailed /\ AuthReturns(t)) =>
             /\ tok'[t] = <<oauth_data[Alias]>>
             /\ tok'[t][1] \in 1..authCount
             /\ \A u \in Threads : tok'[t] # delTok[u]

\* after a failed login the lock is free for the next caller
LockFreeAfterFailure ==
    (everFailed /\ \A u \in Threads : ~InsideOauth(u)) =>
        /\ oauth_lock = {}
        /\ \A t \in Threads : pc[t] = "ga_acq" => ENABLED GetAuthAcquire(t)

\* C39: when authenticate() raises inside get_auth(), the token cache is unchanged and
\* has no entry for the alias, oauth_lock is released and the exception is the outcome
\* of the caller; afterwards get_auth() of any thread can take the lock, authenticates
\* again when the cache has no entry, and returns only the token of a successful
\* login that is in the cache, never a token that a thread has deleted.
C39_FailedLogin == [][FailedLoginStep]_vars /\ []LockFreeAfterFailure

\* one thread's statement ended with the LookupError of authenticate(), and another
\* thread is inside get_auth() after it, about to authenticate with an empty cache
C39_Witness ==
    \E a, b \in Threads :
        /\ a # b
        /\ pc[a] = "done" /\ outcome[a].kind = "LookupError" /\ a \notin oauth_lock
        /\ pc[b] = "ga_auth" /\ b \in oauth_lock /\ Alias \notin DOMAIN oauth_data

====
